---------------------------- MODULE Spec2Model ----------------------------
(***************************************************************************)
(* A model of tfo_sensitivity: the Jacobian calculators (numerical and     *)
(* analytical), the ToF distribution (raw construction, from_data, the     *)
(* operators) and the two-pointer range optimizers.                        *)
(*                                                                         *)
(* Floating point values are modelled as exact rationals (plus NaN and the *)
(* two infinities where the code can produce them); rounding is not        *)
(* modelled.                                                               *)
(***************************************************************************)
EXTENDS Integers, Sequences, FiniteSets, TLC

VARIABLES
    \* ---- tof/optimization.py ----
    target_func,        \* the caller's f, as the table of the values it has returned so far
    left_pointer_init,
    right_pointer_init,
    optima_type,        \* "max" | "min"
    opt_pc,             \* where the optimizer stands
    left_pointer,       \* two_pointer_discrete_optimize: locals
    right_pointer,
    optimum_value,
    data_matrix,        \* two_pointer_brute_force_optimize: locals
    bf_i,
    bf_j,
    bf_result,          \* what two_pointer_brute_force_optimize returned
    opt_called,         \* which of the two optimizers the caller has called so far
    \* ---- jacobian ----
    jc,                 \* the Jacobian calculator instance: its fields
    jc_ret,             \* what its last calculate_jacobian() returned, and when
    jc_pc,              \* "idle" | "ready" | "returned" | "raised"
    jc_trace,           \* how far the caller is: "constructed" | "called" |
                        \* "called_mutated" | "recalled"
    jc_dicts,           \* the dict objects: those alive, and which of them the caller's
                        \* base_mu_map and the instance's mu_map, mu_map1, mu_map2 are
    \* ---- tof/base.py ----
    tof1,               \* the caller's ToF instances, named as the tests name them;
    tof2,               \* tof3 is what the last operator tof1 <op> tof2 gave
    tof3,
    tof1_args,          \* the arguments tof1 and tof2 were made from
    tof2_args,
    tof_operation,      \* the operator that gave tof3
    tof_dropped,        \* the bins the caller dropped from tof1.data
    tof_check,          \* what check_operation_compatibility returned
    tof_chain,          \* how many operator results the caller has used as operands
    tof_ids,            \* which object each of the names tof1, tof2, tof3 is bound to
    tof_series,         \* what the last operator tof1 <op> scalar gave: a Series
    tof_pc,             \* how far the caller is
    \* ---- functions called on their own ----
    fn_args,            \* the function a caller calls and the arguments it gives
    fn_ret              \* what the call returned or raised

opt_vars == <<target_func, left_pointer_init, right_pointer_init, optima_type, opt_pc,
              left_pointer, right_pointer, optimum_value, data_matrix, bf_i, bf_j,
              bf_result, opt_called>>

jac_vars == <<jc, jc_ret, jc_pc, jc_trace, jc_dicts>>

tof_vars == <<tof1, tof2, tof3, tof1_args, tof2_args, tof_operation, tof_dropped, tof_check,
              tof_chain, tof_ids, tof_series, tof_pc>>

fn_vars == <<fn_args, fn_ret>>

vars == <<opt_vars, jac_vars, tof_vars, fn_vars>>

(***************************************************************************)
(* Bounds of the model.                                                    *)
(***************************************************************************)
\* the pointers range over 0..MaxIdx
MaxIdx == 2
\* the target function returns a value in 0..MaxVal
MaxVal == 1
\* hemoglobin ranges over 1..MaxHb
MaxHb == 2
\* a raw photon table has 1..MaxPhotons photons
MaxPhotons == 2
\* the path length of a photon ranges over 0..MaxPath
MaxPath == 3
\* the index of a Series given to from_data lies in 0..MaxBin
MaxBin == 2
\* how many operator results the caller may use as an operand again
MaxChain == 1
\* the values of a Series of the optimizer tests lie in -MaxData..MaxData
MaxData == 2
\* the step delta of a derivative ranges over 1..MaxDelta
MaxDelta == 2
\* the deepest photon table has the path columns of the layers 1..MaxLayers
MaxLayers == 10

(***************************************************************************)
(* tof/optimization.py                                                     *)
(***************************************************************************)
FVals == 0..MaxVal

\* a float cell of a numpy matrix: np.nan or a number
NaNCell == [nan |-> TRUE, v |-> 0]
NumCell(x) == [nan |-> FALSE, v |-> x]

\* the pairs the brute force loops over: left_init <= i <= j <= right_init
ScanPairs(l, r) == {p \in (l..r) \X (l..r) : p[1] <= p[2]}

\* the values target_func(i, j) may return: a pure function returns what it returned
\* before
Returns(p) ==
    IF p \in DOMAIN target_func THEN {target_func[p]} ELSE FVals

Remember(p, v) == (p :> v) @@ target_func

\* _is_next_better with the comparisons the wrong way round
IsNextBetterReversed(type, old, new) ==
    IF type = "max" THEN new < old ELSE new > old

\* _is_next_better with ties counted as better
IsNextBetterOrEqual(type, old, new) ==
    IF type = "max" THEN new >= old ELSE new <= old

\* _is_next_better that takes every call for a "max" call
IsNextBetterAlwaysMax(type, old, new) == new > old

\* _is_next_better that takes every call for a "min" call
IsNextBetterAlwaysMin(type, old, new) == new < old

\* _is_next_better(old, new) of two_pointer_discrete_optimize
IsNextBetter(type, old, new) ==
    IF type = "max" THEN new > old ELSE new < old

\* a loop that goes on while the pointers are equal
LoopConditionOrEqual(left, right) == left <= right

\* the condition of the while loop of two_pointer_discrete_optimize
LoopCondition(left, right) == left < right

\* the optimizer before its first line, whatever target_func is
OptStart ==
    /\ \E l \in 0..MaxIdx : \E r \in l..MaxIdx :
          /\ left_pointer_init = l
          /\ right_pointer_init = r
    /\ optima_type \in {"max", "min"}
    /\ opt_pc = "start"
    /\ left_pointer = left_pointer_init
    /\ right_pointer = right_pointer_init
    /\ optimum_value = 0
    /\ data_matrix = <<>>
    /\ bf_i = 0
    /\ bf_j = 0
    /\ bf_result = <<>>
    /\ opt_called = {}

\* any target_func: nothing is known of it until it is called
OptInit ==
    /\ target_func = <<>>
    /\ OptStart

\* two_pointer_discrete_optimize: the three assignments before the loop
DiscreteStart ==
    /\ opt_pc = "start"
    /\ \E v \in Returns(<<left_pointer_init, right_pointer_init>>) :
          /\ target_func' = Remember(<<left_pointer_init, right_pointer_init>>, v)
          /\ optimum_value' = v
    /\ left_pointer' = left_pointer_init
    /\ right_pointer' = right_pointer_init
    /\ opt_pc' = "greedy_loop"
    /\ opt_called' = opt_called \cup {"two_pointer_discrete_optimize"}
    /\ UNCHANGED <<jac_vars, tof_vars, fn_vars>>
    /\ UNCHANGED <<left_pointer_init, right_pointer_init, optima_type, data_matrix,
                   bf_i, bf_j, bf_result>>

\* one iteration of the while loop
DiscreteStep ==
    /\ opt_pc = "greedy_loop"
    /\ LoopCondition(left_pointer, right_pointer)
    /\ LET pl == <<left_pointer + 1, right_pointer>>
           pr == <<left_pointer, right_pointer - 1>>
       IN  \E next_left \in Returns(pl), next_right \in Returns(pr) :
              /\ pl = pr => next_left = next_right
              /\ target_func' = (pl :> next_left) @@ (pr :> next_right) @@ target_func
              /\ IF IsNextBetter(optima_type, optimum_value, next_left)
                 THEN /\ left_pointer' = left_pointer + 1
                      /\ optimum_value' = next_left
                      /\ UNCHANGED <<right_pointer, opt_pc>>
                 ELSE IF IsNextBetter(optima_type, optimum_value, next_right)
                 THEN /\ right_pointer' = right_pointer - 1
                      /\ optimum_value' = next_right
                      /\ UNCHANGED <<left_pointer, opt_pc>>
                 ELSE /\ opt_pc' = "greedy_done"      \* break
                      /\ UNCHANGED <<left_pointer, right_pointer, optimum_value>>
    /\ UNCHANGED <<jac_vars, tof_vars, fn_vars>>
    /\ UNCHANGED <<left_pointer_init, right_pointer_init, optima_type, data_matrix,
                   bf_i, bf_j, bf_result, opt_called>>

\* the loop condition fails: return left_pointer, right_pointer, optimum_value
DiscreteReturn ==
    /\ opt_pc = "greedy_loop"
    /\ ~LoopCondition(left_pointer, right_pointer)
    /\ opt_pc' = "greedy_done"
    /\ UNCHANGED <<jac_vars, tof_vars, fn_vars>>
    /\ UNCHANGED <<target_func, left_pointer_init, right_pointer_init, optima_type,
                   left_pointer, right_pointer, optimum_value, data_matrix, bf_i, bf_j,
                   bf_result, opt_called>>

\* two_pointer_brute_force_optimize: data_matrix = np.full((w, w), np.nan)
BruteStart ==
    /\ opt_pc \in {"start", "greedy_done"}
    /\ bf_result = <<>>
    /\ LET w == right_pointer_init - left_pointer_init + 1
       IN  data_matrix' = [p \in (0..(w - 1)) \X (0..(w - 1)) |-> NaNCell]
    /\ bf_i' = left_pointer_init
    /\ bf_j' = left_pointer_init
    /\ opt_pc' = "bf_loop"
    /\ opt_called' = opt_called \cup {"two_pointer_brute_force_optimize"}
    /\ UNCHANGED <<jac_vars, tof_vars, fn_vars>>
    /\ UNCHANGED <<target_func, left_pointer_init, right_pointer_init, optima_type,
                   left_pointer, right_pointer, optimum_value, bf_result>>

\* one pass of the inner loop body:
\* data_matrix[i - left_pointer_init, j - left_pointer_init] = target_func(i, j)
BruteEval ==
    /\ opt_pc = "bf_loop"
    /\ bf_i <= right_pointer_init
    /\ \E v \in Returns(<<bf_i, bf_j>>) :
          /\ target_func' = Remember(<<bf_i, bf_j>>, v)
          /\ data_matrix' = [data_matrix EXCEPT
                ![<<bf_i - left_pointer_init, bf_j - left_pointer_init>>] = NumCell(v)]
    /\ IF bf_j < right_pointer_init
       THEN /\ bf_j' = bf_j + 1
            /\ bf_i' = bf_i
       ELSE /\ bf_i' = bf_i + 1
            /\ bf_j' = bf_i + 1
    /\ UNCHANGED <<jac_vars, tof_vars, fn_vars>>
    /\ UNCHANGED <<left_pointer_init, right_pointer_init, optima_type, opt_pc,
                   left_pointer, right_pointer, optimum_value, bf_result, opt_called>>

\* the cells np.nanmax / np.nanargmax look at
ValidCells(m) == {p \in DOMAIN m : ~m[p].nan}

\* np.nanmax whatever optima_type says
NanOptimumAlwaysMax(type, m) ==
    CHOOSE x \in {m[p].v : p \in ValidCells(m)} : \A q \in ValidCells(m) : m[q].v <= x

\* optima_func(data_matrix): np.nanmax(m) / np.nanmin(m)
NanOptimum(type, m) ==
    CHOOSE x \in {m[p].v : p \in ValidCells(m)} :
        \A q \in ValidCells(m) : IF type = "max" THEN m[q].v <= x ELSE m[q].v >= x

\* np.unravel_index(np.nanargmax(m), m.shape): the first cell, in row-major order,
\* that holds the optimum
NanArgOptimum(type, m) ==
    LET best == NanOptimum(type, m)
        hits == {p \in ValidCells(m) : m[p].v = best}
    IN  CHOOSE p \in hits :
            \A q \in hits : p[1] < q[1] \/ (p[1] = q[1] /\ p[2] <= q[2])

\* the lines after the loops: the arg-optimum, shifted back by left_pointer_init
BruteReturn ==
    /\ opt_pc = "bf_loop"
    /\ bf_i > right_pointer_init
    /\ LET cell == NanArgOptimum(optima_type, data_matrix)
       IN  bf_result' = <<cell[1] + left_pointer_init, cell[2] + left_pointer_init,
                          NanOptimum(optima_type, data_matrix)>>
    /\ opt_pc' = "bf_done"
    /\ UNCHANGED <<jac_vars, tof_vars, fn_vars>>
    /\ UNCHANGED <<target_func, left_pointer_init, right_pointer_init, optima_type,
                   left_pointer, right_pointer, optimum_value, data_matrix, bf_i, bf_j,
                   opt_called>>

OptNext ==
    \/ DiscreteStart
    \/ DiscreteStep
    \/ DiscreteReturn
    \/ BruteStart
    \/ BruteEval
    \/ BruteReturn


(***************************************************************************)
(* Sums of exponentials.  An intensity is a sum of terms c * exp(-e) with  *)
(* integer c and e; it is kept as the function e |-> c over the exponents  *)
(* with c # 0.  Two such sums are the same real number exactly when they   *)
(* are the same function (exponentials of distinct integers are linearly   *)
(* independent over the rationals), so equality of results is decided      *)
(* exactly, by cross-multiplication.                                       *)
(***************************************************************************)
RECURSIVE SumF(_, _)
SumF(f, S) ==
    IF S = {} THEN 0
    ELSE LET x == CHOOSE y \in S : TRUE IN f[x] + SumF(f, S \ {x})

\* drop the terms whose coefficient is 0
ES_Norm(f) == [e \in {x \in DOMAIN f : f[x] # 0} |-> f[e]]

\* sum over the rows i of weight[i] * exp(-column[i])
ES_Weighted(column, weight) ==
    LET es == {column[i] : i \in DOMAIN column}
    IN  ES_Norm([e \in es |->
            SumF(weight, {i \in DOMAIN column : column[i] = e})])

ES_One == [e \in {0} |-> 1]

ES_Scale(k, a) == ES_Norm([e \in DOMAIN a |-> k * a[e]])

ES_Sub(a, b) ==
    ES_Norm([e \in DOMAIN a \cup DOMAIN b |->
        (IF e \in DOMAIN a THEN a[e] ELSE 0) - (IF e \in DOMAIN b THEN b[e] ELSE 0)])

ES_Mul(a, b) ==
    LET es == {x + y : x \in DOMAIN a, y \in DOMAIN b}
    IN  ES_Norm([e \in es |->
            SumF([x \in DOMAIN a |-> IF e - x \in DOMAIN b THEN a[x] * b[e - x] ELSE 0],
                 DOMAIN a)])

(***************************************************************************)
(* calculate_intensity/photon_manipulation.py                              *)
(***************************************************************************)
\* str(n): the decimal digits of a layer number
RECURSIVE Digits(_)
Digits(n) == IF n < 10 THEN <<n>> ELSE Digits(n \div 10) \o <<n % 10>>

\* 'L{a} ppath' <= 'L{b} ppath' as list.sort() compares two str: character by
\* character; after a common prefix of digits the blank that ends the shorter number
\* comes before any digit
NameBefore(a, b) ==
    LET da == Digits(a)
        db == Digits(b)
        same(k) == \A i \in 1..k : da[i] = db[i]
    IN  \/ Len(da) <= Len(db) /\ same(Len(da))
        \/ \E k \in 1..Len(da) :
              /\ k <= Len(db)
              /\ same(k - 1)
              /\ da[k] < db[k]

\* the 'L{n} ppath' columns of a table, by their layer number n, in the order
\* partial_path_columns.sort() puts the names
RECURSIVE SortedColumns(_)
SortedColumns(cols) ==
    IF cols = {} THEN <<>>
    ELSE LET m == CHOOSE x \in cols : \A y \in cols : NameBefore(x, y)
         IN  <<m>> \o SortedColumns(cols \ {m})

\* list(filter(name_filer, photon_data.columns)): column 0 of a photon table stands
\* for "SDD", column n > 0 for "L<n> ppath"
PartialPathColumns(photon_data) == {c \in DOMAIN photon_data[1] : c > 0}

\* generate_intensity_column(photon_data, mu_map, None): per photon the exponent e of
\* its intensity exp(-e), e the sum over the map's layers of mu * path length
GenerateIntensityColumn(photon_data, mu_map) ==
    LET partial_path_columns == SortedColumns(PartialPathColumns(photon_data))
    IN  [i \in DOMAIN photon_data |->
            SumF([n \in DOMAIN mu_map |->
                     mu_map[n] * photon_data[i][partial_path_columns[n]]],
                 DOMAIN mu_map)]

\* generate_intensity(photon_data, mu_map, None): np.sum of the column
GenerateIntensity(photon_data, mu_map) ==
    LET column == GenerateIntensityColumn(photon_data, mu_map)
    IN  ES_Weighted(column, [i \in DOMAIN column |-> 1])

(***************************************************************************)
(* The absorption models get_mu_a and get_tissue_mu_a are imported from    *)
(* the package inverse_modelling_tfo; they are modelled as the linear      *)
(* mixing law the analytical calculators differentiate.  Hemoglobin and    *)
(* saturation are whole numbers; saturation 1 is full saturation.          *)
(***************************************************************************)
EpsHbO(wave_int) == IF wave_int = 1 THEN 1 ELSE 3
EpsHHb(wave_int) == IF wave_int = 1 THEN 3 ELSE 2
BackgroundMuA(wave_int) == IF wave_int = 1 THEN 1 ELSE 2

GetMuA(sat, hb, wave_int) ==
    hb * (sat * EpsHbO(wave_int) + (1 - sat) * EpsHHb(wave_int))

GetTissueMuA(bvf, hb, sat, wave_int, avf, vsrf) ==
    avf * (GetMuA(sat, hb, wave_int) + GetMuA(sat * vsrf, hb, wave_int))
        + bvf * BackgroundMuA(wave_int)

(***************************************************************************)
(* jacobian/mu_a_equations.py                                              *)
(***************************************************************************)
\* "M" in dx taken to be false, "S" in dx taken to be true, whatever dx is
HasMNever(dx) == FALSE
HasSAlways(dx) == TRUE

\* "M" in dx, "C" in dx, "S" in dx
HasM(dx) == dx \in {"MC", "MS", "M"}
HasC(dx) == dx \in {"MC", "FC"}
HasS(dx) == dx \in {"MS", "FS"}

\* dict.copy() without the assignment that follows it
DictCopyOnly(d, key, value) == d

\* dict.copy() followed by d[key] = value
DictSet(d, key, value) == (key :> value) @@ d

\* what derivative_mu_map_gen hands back: the three maps, or the exception it raises
MuMaps(mu_map, mu_map1, mu_map2) ==
    [raises |-> "", mu_map |-> mu_map, mu_map1 |-> mu_map1, mu_map2 |-> mu_map2]
MuMapsRaise(exception) ==
    [raises |-> exception, mu_map |-> <<>>, mu_map1 |-> <<>>, mu_map2 |-> <<>>]

\* FullBloodJacobianMuAEqn.derivative_mu_map_gen
FullBloodDerivativeMuMapGen(base_mu_map, maternal_sat, maternal_hb, fetal_sat, fetal_hb, wave_int, dx, delta) ==
    LET mu_map == DictSet(DictSet(base_mu_map, 1, GetMuA(maternal_sat, maternal_hb, wave_int)),
                          4, GetMuA(fetal_sat, fetal_hb, wave_int))
        layer_affected == IF HasM(dx) THEN 1 ELSE 4
        affected_sat == IF HasM(dx) THEN maternal_sat ELSE fetal_sat
        affected_hb == IF HasM(dx) THEN maternal_hb ELSE fetal_hb
    IN  IF HasC(dx) THEN
            MuMaps(mu_map,
              DictSet(mu_map, layer_affected, GetMuA(affected_sat, affected_hb + delta, wave_int)),
              DictSet(mu_map, layer_affected, GetMuA(affected_sat, affected_hb - delta, wave_int)))
        ELSE IF HasS(dx) THEN
            MuMaps(mu_map,
              DictSet(mu_map, layer_affected, GetMuA(affected_sat + delta, affected_hb, wave_int)),
              DictSet(mu_map, layer_affected, GetMuA(affected_sat - delta, affected_hb, wave_int)))
        ELSE MuMapsRaise("NotImplementedError")

\* PartialBloodJacobianMuAEqn.derivative_mu_map_gen; eqn holds the six fractions
PartialBloodDerivativeMuMapGen(eqn, base_mu_map, maternal_sat, maternal_hb, fetal_sat, fetal_hb, wave_int, dx, delta) ==
    LET mu_map ==
            DictSet(DictSet(base_mu_map, 1,
                        GetTissueMuA(eqn.maternal_blood_volume_fraction, maternal_hb,
                                     maternal_sat, wave_int, eqn.maternal_arterial_fraction,
                                     eqn.maternal_venous_saturation_reduction_factor)),
                    4,
                    GetTissueMuA(eqn.fetal_blood_volume_fraction, fetal_hb, fetal_sat,
                                 wave_int, eqn.fetal_arterial_fraction,
                                 eqn.fetal_venous_saturation_reduction_factor))
        layer_affected == IF HasM(dx) THEN 1 ELSE 4
        affected_sat == IF HasM(dx) THEN maternal_sat ELSE fetal_sat
        affected_bvf == IF HasM(dx) THEN eqn.maternal_blood_volume_fraction
                        ELSE eqn.fetal_blood_volume_fraction
        affected_avf == IF HasM(dx) THEN eqn.maternal_arterial_fraction
                        ELSE eqn.fetal_arterial_fraction
        affected_vsrf == IF HasM(dx) THEN eqn.maternal_venous_saturation_reduction_factor
                         ELSE eqn.fetal_venous_saturation_reduction_factor
        affected_hb == IF HasM(dx) THEN maternal_hb ELSE fetal_hb
    IN  IF HasC(dx) THEN
            MuMaps(mu_map,
              DictSet(mu_map, layer_affected,
                      GetTissueMuA(affected_bvf, affected_hb + delta, affected_sat, wave_int,
                                   affected_avf, affected_vsrf)),
              DictSet(mu_map, layer_affected,
                      GetTissueMuA(affected_bvf, affected_hb - delta, affected_sat, wave_int,
                                   affected_avf, affected_vsrf)))
        ELSE IF HasS(dx) THEN
            MuMaps(mu_map,
              DictSet(mu_map, layer_affected,
                      GetTissueMuA(affected_bvf, affected_hb, affected_sat + delta, wave_int,
                                   affected_avf, affected_vsrf)),
              DictSet(mu_map, layer_affected,
                      GetTissueMuA(affected_bvf, affected_hb, affected_sat - delta, wave_int,
                                   affected_avf, affected_vsrf)))
        ELSE MuMapsRaise("NotImplementedError")

\* a second name for the dict d instead of a copy of it
DictCopyAlias(heap, d) == d

\* the object d.copy() makes: a dict of its own.  heap holds the dicts alive, each under
\* its identity; the identities are the numbers from 1 to the number of dicts.
DictCopy(heap, d) == 1 + Cardinality(DOMAIN heap)

\* derivative_mu_map_gen of either strategy, in a call that returns, as it acts on the
\* dict objects: the copies it makes and the entries it stores, statement by statement.
\* base_mu_map names the caller's dict; maps holds the values the call computes (the
\* three maps it returns), from which the stored values are read.
MuMapObjects(heap, base_mu_map, maps, dx) ==
    LET Copied(h, d) == (DictCopy(h, d) :> h[d]) @@ h
        Stored(h, d, key, value) == [h EXCEPT ![d] = (key :> value) @@ @]
        layer_affected == IF HasM(dx) THEN 1 ELSE 4
        mu_map == DictCopy(heap, base_mu_map)
        h1 == Copied(heap, base_mu_map)
        h2 == Stored(Stored(h1, mu_map, 1, maps.mu_map[1]), mu_map, 4, maps.mu_map[4])
        mu_map1 == DictCopy(h2, mu_map)
        h3 == Copied(h2, mu_map)
        mu_map2 == DictCopy(h3, mu_map)
        h4 == Copied(h3, mu_map)
    IN  [heap |-> Stored(Stored(h4, mu_map1, layer_affected, maps.mu_map1[layer_affected]),
                         mu_map2, layer_affected, maps.mu_map2[layer_affected]),
         base_mu_map |-> base_mu_map,
         mu_map |-> mu_map, mu_map1 |-> mu_map1, mu_map2 |-> mu_map2]

\* mu_a_eqn.derivative_mu_map_gen(...): the strategy object decides which of the two
DerivativeMuMapGen(mu_a_eqn, base_mu_map, maternal_sat, maternal_hb, fetal_sat, fetal_hb, wave_int, dx, delta) ==
    IF mu_a_eqn.cls = "str"      \* a str has no attribute derivative_mu_map_gen
    THEN MuMapsRaise("AttributeError")
    ELSE IF mu_a_eqn.cls = "FullBloodJacobianMuAEqn"
    THEN FullBloodDerivativeMuMapGen(base_mu_map, maternal_sat, maternal_hb, fetal_sat,
                                     fetal_hb, wave_int, dx, delta)
    ELSE PartialBloodDerivativeMuMapGen(mu_a_eqn, base_mu_map, maternal_sat, maternal_hb,
                                        fetal_sat, fetal_hb, wave_int, dx, delta)

(***************************************************************************)
(* jacobian/numerical_formulae.py, jacobian/analytical_formulae.py         *)
(*                                                                         *)
(* A returned float is kept as sn/sd * N/D ("ratio") or as                 *)
(* sn/sd * log10(N/D) ("log"), N and D sums of exponentials.               *)
(***************************************************************************)
\* the table of photons the calculators are built on: per photon the partial path
\* length in each of the four layers (one detector; sdd_index is None)
PhotonData ==
    << (1 :> 1) @@ (2 :> 0) @@ (3 :> 1) @@ (4 :> 1),
       (1 :> 0) @@ (2 :> 1) @@ (3 :> 0) @@ (4 :> 2) >>

\* the base absorption map of the four layers
BaseMuMap == (1 :> 1) @@ (2 :> 2) @@ (3 :> 3) @@ (4 :> 4)

DefaultDelta == 1

Float(kind, sn, sd, N, D) == [kind |-> kind, sn |-> sn, sd |-> sd, N |-> N, D |-> D]

\* two returned floats are the same number
SameFloat(a, b) ==
    /\ a.kind = b.kind
    /\ IF a.kind = "ratio"
       THEN ES_Scale(a.sn * b.sd, ES_Mul(a.N, b.D)) = ES_Scale(b.sn * a.sd, ES_Mul(b.N, a.D))
       ELSE \/ a.N = a.D /\ b.N = b.D
            \/ /\ a.sn * b.sd = b.sn * a.sd
               /\ ES_Mul(a.N, b.D) = ES_Mul(b.N, a.D)

FullBloodEqn == [cls |-> "FullBloodJacobianMuAEqn"]

\* PartialBloodJacobianMuAEqn.__init__: the six fractions, kept as fields
PartialBloodEqn(mbvf, maf, mvsrf, fbvf, faf, fvsrf) ==
    [cls |-> "PartialBloodJacobianMuAEqn",
     maternal_blood_volume_fraction |-> mbvf,
     maternal_arterial_fraction |-> maf,
     maternal_venous_saturation_reduction_factor |-> mvsrf,
     fetal_blood_volume_fraction |-> fbvf,
     fetal_arterial_fraction |-> faf,
     fetal_venous_saturation_reduction_factor |-> fvsrf]

\* NumericalJacobianCalculator._derivative_mu_map_gen: the three maps from the fields
\* the instance holds now
NumDerivativeMuMapGen(self) ==
    LET maps == DerivativeMuMapGen(self.mu_a_eqn, self.base_mu_map, self.maternal_sat,
                                   self.maternal_hb, self.fetal_sat, self.fetal_hb,
                                   self.wave_int, self.dx, self.delta)
    IN  [self EXCEPT !.mu_map = maps.mu_map, !.mu_map1 = maps.mu_map1,
                     !.mu_map2 = maps.mu_map2]

\* NumericalJacobianCalculator.__init__ (and JacobianCalculator.__init__ under it)
NumericalInit(cls, filtered_photon_data, operating_point, base_mu_map, dx, mu_a_eqn, delta) ==
    NumDerivativeMuMapGen(
        [family |-> "numerical",
         cls |-> cls,
         operating_point |-> operating_point,
         filtered_photon_data |-> filtered_photon_data,
         base_mu_map |-> base_mu_map,
         dx |-> dx,
         delta |-> delta,
         maternal_hb |-> operating_point.maternal_hb,
         maternal_sat |-> operating_point.maternal_sat,
         fetal_hb |-> operating_point.fetal_hb,
         fetal_sat |-> operating_point.fetal_sat,
         wave_int |-> operating_point.wave_int,
         mu_map |-> <<>>,
         mu_map1 |-> <<>>,
         mu_map2 |-> <<>>,
         mu_a_eqn |-> mu_a_eqn])

\* what NumericalJacobianCalculator.__init__ raises with these arguments, "" if nothing:
\* the exception of its call of _derivative_mu_map_gen()
NumericalInitRaises(operating_point, base_mu_map, dx, mu_a_eqn, delta) ==
    DerivativeMuMapGen(mu_a_eqn, base_mu_map, operating_point.maternal_sat,
                       operating_point.maternal_hb, operating_point.fetal_sat,
                       operating_point.fetal_hb, operating_point.wave_int, dx, delta).raises

\* what calculate_jacobian() of the numerical calculators does to the instance before
\* it reads the maps: nothing
NumBeforeCalculate(self) == self

\* RegularDerivative / NormalizedDerivative / LogDerivative .calculate_jacobian
NumCalculateJacobian(self) ==
    LET I1 == GenerateIntensity(self.filtered_photon_data, self.mu_map1)
        I2 == GenerateIntensity(self.filtered_photon_data, self.mu_map2)
        I0 == GenerateIntensity(self.filtered_photon_data, self.mu_map)
    IN  IF self.cls = "NormalizedDerivative"
        THEN Float("ratio", 1, 2 * self.delta, ES_Sub(I1, I2), I0)
        ELSE IF self.cls = "RegularDerivative"
        THEN Float("ratio", 1, 2 * self.delta, ES_Sub(I1, I2), ES_One)
        ELSE Float("log", 1, 2 * self.delta, I1, I2)

\* AnalyticalJacobianCalculator._modify_mu_map
AnaModifyMuMap(self) ==
    LET maps == DerivativeMuMapGen(self.mu_a_eqn, self.base_mu_map, self.maternal_sat,
                                   self.maternal_hb, self.fetal_sat, self.fetal_hb,
                                   self.wave_int, self.dx, 1)
    IN  [self EXCEPT !.mu_map = maps.mu_map]

\* AnalyticalJacobianCalculator._calculate_eps, assigned to eps, eps_hbo, eps_hhb
AnaCalculateEps(self) ==
    [self EXCEPT !.eps = GetMuA(self.fetal_sat, 1, self.wave_int),
                 !.eps_hbo = GetMuA(1, 1, self.wave_int),
                 !.eps_hhb = GetMuA(0, 1, self.wave_int)]

\* a calculate_jacobian() that trusts what the constructor computed
AnaBeforeCalculateStale(self) == self

\* the two lines under "Update these values before calculating the jacobian"
AnaBeforeCalculate(self) == AnaCalculateEps(AnaModifyMuMap(self))

\* AnalyticalJacobianCalculator.__init__ (PartialBloodAnalyticalJC adds two fields)
AnalyticalInit(cls, filtered_photon_data, base_mu_map, dx, maternal_hb, maternal_sat, fetal_hb, fetal_sat, wave_int, mu_a_eqn, normalize_derivative) ==
    AnaCalculateEps(AnaModifyMuMap(
        [family |-> "analytical",
         cls |-> cls,
         filtered_photon_data |-> filtered_photon_data,
         dx |-> dx,
         base_mu_map |-> base_mu_map,
         maternal_hb |-> maternal_hb,
         maternal_sat |-> maternal_sat,
         fetal_hb |-> fetal_hb,
         fetal_sat |-> fetal_sat,
         wave_int |-> wave_int,
         mu_map |-> base_mu_map,
         mu_a_eqn |-> mu_a_eqn,
         normalize_derivative |-> normalize_derivative,
         eps |-> 0,
         eps_hbo |-> 0,
         eps_hhb |-> 0,
         arterial_volume_fraction |-> 1,
         venous_saturation_reduction_factor |-> 3]))

\* -coefficient * np.dot(pathlength_column, intensity_column), over np.sum(intensity_column)
\* when normalize_derivative
AnaTerm(self, coefficient) ==
    LET intensity_column == GenerateIntensityColumn(self.filtered_photon_data, self.mu_map)
        pathlength_column == [i \in DOMAIN self.filtered_photon_data |->
                                 self.filtered_photon_data[i][4]]
    IN  Float("ratio", -coefficient, 1,
              ES_Weighted(intensity_column, pathlength_column),
              IF self.normalize_derivative
              THEN ES_Weighted(intensity_column, [i \in DOMAIN intensity_column |-> 1])
              ELSE ES_One)

\* _fetal_conc_derivative and _fetal_sat_derivative of the two analytical calculators
AnaDerivative(self) ==
    IF self.cls = "FullBloodAnalyticalJC"
    THEN IF self.dx = "FC"
         THEN AnaTerm(self, self.eps)
         ELSE AnaTerm(self, (self.eps_hbo - self.eps_hhb) * self.fetal_hb)
    ELSE IF self.dx = "FC"
         THEN AnaTerm(self, self.arterial_volume_fraction
                            * (self.eps + GetMuA(self.fetal_sat
                                                   * self.venous_saturation_reduction_factor,
                                                 1, self.wave_int)))
         ELSE AnaTerm(self, (self.eps_hbo - self.eps_hhb) * self.fetal_hb
                            * (self.venous_saturation_reduction_factor + 1)
                            * self.arterial_volume_fraction)

\* dx_to_func_mapping.get(self.dx, self._not_implemented)
AnaSupports(dx) == dx \in {"FC", "FS"}

(***************************************************************************)
(* The caller of a calculator: it constructs one, then sweeps operating    *)
(* point fields of the instance upwards, one step of one field at a time,  *)
(* and calls calculate_jacobian(), in any order.                           *)
(***************************************************************************)
DxTypes == {"MC", "MS", "FC", "FS"}

OperatingPoints ==
    [maternal_hb : 1..MaxHb, maternal_sat : 0..1, fetal_hb : 1..MaxHb, fetal_sat : 0..1,
     wave_int : {1, 2}]

\* the values a caller may give an operating point field
FieldValues(name) ==
    IF name \in {"maternal_hb", "fetal_hb"} THEN 1..MaxHb
    ELSE IF name \in {"maternal_sat", "fetal_sat"} THEN 0..1
    ELSE {1, 2}

OperatingPointFields == {"maternal_hb", "maternal_sat", "fetal_hb", "fetal_sat", "wave_int"}

MuAEqns == {FullBloodEqn, PartialBloodEqn(2, 1, 3, 2, 1, 3)}

NoFloat == Float("none", 0, 1, ES_Norm(ES_One), ES_Norm(ES_One))

\* the dict objects once a calculator has made its maps from the fields it holds: a
\* numerical one in self._derivative_mu_map_gen(), which binds the three maps returned
\* to self.mu_map, self.mu_map1 and self.mu_map2, an analytical one in
\* self._modify_mu_map(), which binds the first to self.mu_map and drops the other two.
\* The dicts no name is bound to any more are gone, and those alive are numbered afresh
\* in the order they were made (0 stands for None).
CalculatorDicts(self, dicts) ==
    LET maps == DerivativeMuMapGen(self.mu_a_eqn, self.base_mu_map, self.maternal_sat,
                                   self.maternal_hb, self.fetal_sat, self.fetal_hb,
                                   self.wave_int, self.dx,
                                   IF self.family = "numerical" THEN self.delta ELSE 1)
        made == MuMapObjects(dicts.heap, dicts.base_mu_map, maps, self.dx)
        bound == IF self.family = "numerical" THEN made
                 ELSE [made EXCEPT !.mu_map1 = 0, !.mu_map2 = 0]
        live == {bound.base_mu_map, bound.mu_map, bound.mu_map1, bound.mu_map2} \ {0}
        Number(d) == IF d = 0 THEN 0 ELSE Cardinality({e \in live : e <= d})
    IN  [heap |-> [n \in 1..Cardinality(live) |->
                      bound.heap[CHOOSE d \in live : Number(d) = n]],
         base_mu_map |-> Number(bound.base_mu_map),
         mu_map |-> Number(bound.mu_map),
         mu_map1 |-> Number(bound.mu_map1),
         mu_map2 |-> Number(bound.mu_map2)]

JacIdle ==
    /\ jc_dicts = [heap |-> <<>>, base_mu_map |-> 0, mu_map |-> 0, mu_map1 |-> 0,
                   mu_map2 |-> 0]
    /\ jc = [family |-> "none"]
    /\ jc_ret = NoFloat
    /\ jc_pc = "idle"
    /\ jc_trace = "idle"

JacInit ==
    /\ \E op \in OperatingPoints, dx \in DxTypes, mu_a_eqn \in MuAEqns :
          \/ \E cls \in {"RegularDerivative", "NormalizedDerivative", "LogDerivative"} :
                jc = NumericalInit(cls, PhotonData, op, BaseMuMap, dx, mu_a_eqn, DefaultDelta)
          \/ \E cls \in {"FullBloodAnalyticalJC", "PartialBloodAnalyticalJC"},
                normalize_derivative \in BOOLEAN :
                jc = AnalyticalInit(cls, PhotonData, BaseMuMap, dx, op.maternal_hb,
                                    op.maternal_sat, op.fetal_hb, op.fetal_sat, op.wave_int,
                                    mu_a_eqn, normalize_derivative)
    /\ jc_dicts = CalculatorDicts(jc, [heap |-> <<BaseMuMap>>, base_mu_map |-> 1])
    /\ jc_ret = NoFloat
    /\ jc_pc = "ready"
    /\ jc_trace = "constructed"

\* the caller assigns one operating point field of the instance
SetOperatingPointField ==
    /\ jc_pc \in {"ready", "returned", "raised"}
    /\ \E name \in OperatingPointFields :
          /\ jc[name] + 1 \in FieldValues(name)
          /\ jc' = [jc EXCEPT ![name] = jc[name] + 1]
    /\ jc_ret' = NoFloat
    /\ jc_pc' = "ready"
    /\ jc_trace' = IF jc_trace = "called" THEN "called_mutated" ELSE jc_trace
    /\ UNCHANGED jc_dicts
    /\ UNCHANGED <<opt_vars, tof_vars, fn_vars>>

Called(trace) ==
    IF trace = "constructed" THEN "called"
    ELSE IF trace = "called_mutated" THEN "recalled"
    ELSE trace

\* calculate_jacobian() on a RegularDerivative, NormalizedDerivative or LogDerivative
NumericalCalculate ==
    /\ jc_pc \in {"ready", "returned"}
    /\ jc.family = "numerical"
    /\ LET self == NumBeforeCalculate(jc)
       IN  /\ jc' = self
           /\ jc_ret' = NumCalculateJacobian(self)
    /\ UNCHANGED jc_dicts
    /\ jc_pc' = "returned"
    /\ jc_trace' = Called(jc_trace)
    /\ UNCHANGED <<opt_vars, tof_vars, fn_vars>>

\* calculate_jacobian() on a FullBloodAnalyticalJC or PartialBloodAnalyticalJC
AnalyticalCalculate ==
    /\ jc_pc \in {"ready", "returned", "raised"}
    /\ jc.family = "analytical"
    /\ LET self == AnaBeforeCalculate(jc)
       IN  /\ jc' = self
           /\ jc_dicts' = CalculatorDicts(jc, jc_dicts)
           /\ IF AnaSupports(self.dx)
              THEN /\ jc_ret' = AnaDerivative(self)
                   /\ jc_pc' = "returned"
              ELSE /\ jc_ret' = NoFloat          \* _not_implemented raises
                   /\ jc_pc' = "raised"
    /\ jc_trace' = Called(jc_trace)
    /\ UNCHANGED <<opt_vars, tof_vars, fn_vars>>

JacNext ==
    \/ SetOperatingPointField
    \/ NumericalCalculate
    \/ AnalyticalCalculate

OptIdle ==
    /\ target_func = <<>>
    /\ left_pointer_init = 0
    /\ right_pointer_init = 0
    /\ optima_type = "max"
    /\ opt_pc = "idle"
    /\ left_pointer = 0
    /\ right_pointer = 0
    /\ optimum_value = 0
    /\ data_matrix = <<>>
    /\ bf_i = 0
    /\ bf_j = 0
    /\ bf_result = <<>>
    /\ opt_called = {}

(***************************************************************************)
(* Floats of a pandas Series.  A float is an exact rational n/d ("num"), *)
(* NaN, one of the two infinities, or a finite number that is not zero and *)
(* of which only the sign is kept ("pos", "neg": what log-linear           *)
(* interpolation leaves, and what arithmetic makes of it).  An operation   *)
(* whose result the signs do not decide gives Undecided.  Zeros carry no   *)
(* sign, and rounding, overflow and underflow are not modelled.            *)
(***************************************************************************)
Abs(x) == IF x < 0 THEN -x ELSE x

RECURSIVE GCD(_, _)
GCD(a, b) == IF b = 0 THEN a ELSE GCD(b, a % b)

\* the float n/d, in lowest terms with a positive denominator
Rat(n, d) ==
    LET g == GCD(Abs(n), Abs(d))
        s == IF d < 0 THEN -1 ELSE 1
    IN  [k |-> "num", n |-> s * (n \div g), d |-> s * (d \div g)]

Special(kind) == [k |-> kind, n |-> 0, d |-> 1]
NaN == Special("nan")
PInf == Special("pinf")
NInf == Special("ninf")
Pos == Special("pos")
Neg == Special("neg")
Undecided == Special("undecided")

\* -1, 0 or 1 for every float but NaN
Sign(v) ==
    CASE v.k = "num" -> (IF v.n > 0 THEN 1 ELSE IF v.n < 0 THEN -1 ELSE 0)
      [] v.k \in {"pos", "pinf"} -> 1
      [] v.k \in {"neg", "ninf"} -> -1

IsInf(v) == v.k \in {"pinf", "ninf"}
IsKnownSign(v) == v.k \in {"pos", "neg"}
Signed(s, ifpos, ifneg) == IF s > 0 THEN ifpos ELSE ifneg

Negate(v) ==
    CASE v.k = "num" -> Rat(-v.n, v.d)
      [] v.k = "pinf" -> NInf
      [] v.k = "ninf" -> PInf
      [] v.k = "pos" -> Neg
      [] v.k = "neg" -> Pos
      [] OTHER -> v

\* x + y
FloatAdd(x, y) ==
    IF x.k = "undecided" \/ y.k = "undecided" THEN Undecided
    ELSE IF x.k = "nan" \/ y.k = "nan" THEN NaN
    ELSE IF IsInf(x) /\ IsInf(y) THEN (IF x.k = y.k THEN x ELSE NaN)
    ELSE IF IsInf(x) THEN x
    ELSE IF IsInf(y) THEN y
    ELSE IF x.k = "num" /\ y.k = "num" THEN Rat(x.n * y.d + y.n * x.d, x.d * y.d)
    ELSE IF Sign(x) = 0 THEN y
    ELSE IF Sign(y) = 0 THEN x
    ELSE IF Sign(x) = Sign(y) THEN Signed(Sign(x), Pos, Neg)
    ELSE Undecided

\* x * y
FloatMul(x, y) ==
    IF x.k = "undecided" \/ y.k = "undecided" THEN Undecided
    ELSE IF x.k = "nan" \/ y.k = "nan" THEN NaN
    ELSE IF IsInf(x) \/ IsInf(y)
         THEN (IF Sign(x) * Sign(y) = 0 THEN NaN ELSE Signed(Sign(x) * Sign(y), PInf, NInf))
    ELSE IF x.k = "num" /\ y.k = "num" THEN Rat(x.n * y.n, x.d * y.d)
    ELSE IF Sign(x) * Sign(y) = 0 THEN Rat(0, 1)
    ELSE Signed(Sign(x) * Sign(y), Pos, Neg)

\* 1 / y
FloatInv(y) ==
    CASE y.k = "num" -> (IF y.n = 0 THEN PInf ELSE Rat(y.d, y.n))
      [] IsInf(y) -> Rat(0, 1)
      [] OTHER -> y

\* the lambdas of __truediv__, __mul__, __add__, __sub__
ApplyOperation(operation, x, y) ==
    CASE operation = "truediv" -> FloatMul(x, FloatInv(y))
      [] operation = "mul" -> FloatMul(x, y)
      [] operation = "add" -> FloatAdd(x, y)
      [] operation = "sub" -> FloatAdd(x, Negate(y))

\* x > bound, for the floats the cutoff filter meets (NaN compares false)
GreaterThan(x, bound) ==
    CASE x.k = "num" -> x.n * bound.d > bound.n * x.d
      [] x.k = "pinf" -> TRUE
      [] x.k \in {"nan", "ninf"} -> FALSE

(***************************************************************************)
(* tof/base.py: the ToF class.                                             *)
(*                                                                         *)
(* Path lengths are whole numbers of millimetres and a time is counted in  *)
(* ticks, the time light needs for SpeedOfLight millimetres; absorption is *)
(* counted in units of ln 2 per millimetre, so that the intensity of a     *)
(* photon, exp(-sum of mu * path), is the exact rational 2^-(sum).  A      *)
(* Series is a function from its index (bin numbers) to floats.            *)
(***************************************************************************)
SpeedOfLight == 1

MinOf(S) == CHOOSE x \in S : \A y \in S : x <= y
MaxOf(S) == CHOOSE x \in S : \A y \in S : x >= y

\* Series.loc[index]
Loc(series, index) == [b \in index |-> series[b]]

\* the sum of f over S, as Series.sum() adds floats
RECURSIVE FloatSum(_, _)
FloatSum(f, S) ==
    IF S = {} THEN Rat(0, 1)
    ELSE LET x == CHOOSE y \in S : TRUE IN FloatAdd(f[x], FloatSum(f, S \ {x}))

\* a ToF instance; raises = "" says the call that made it returned
ToFObject(data, photon_count_per_bin, time_resolution, lower_bin_index, upper_bin_index, interpolation_needed) ==
    [raises |-> "",
     data |-> data,
     photon_count_per_bin |-> photon_count_per_bin,
     time_resolution |-> time_resolution,
     lower_bin_index |-> lower_bin_index,
     upper_bin_index |-> upper_bin_index,
     interpolation_needed |-> interpolation_needed]

\* a call that raised, or a name not bound yet: there is no instance
NoToF(why) ==
    [raises |-> why,
     data |-> <<>>,
     photon_count_per_bin |-> <<>>,
     time_resolution |-> 0,
     lower_bin_index |-> 0,
     upper_bin_index |-> 0,
     interpolation_needed |-> FALSE]

\* numpy's message when min() meets an empty array
ZeroSizeError == "ValueError: zero-size array to reduction operation minimum which has no identity"
IncompatibleError == "ValueError: The two ToF objects are not compatible"

\* the float exp(-e) of generate_intensity_column, e the photon's exponent
IntensityValue(e) == Rat(1, 2 ^ e)

\* ToF._calculate_tof: per photon the total path over the 'L.. ppath' columns,
\* times 1e-3 / SPEED_OF_LIGHT
CalculateTof(photon_data) ==
    [i \in DOMAIN photon_data |->
        Rat(SumF(photon_data[i], DOMAIN photon_data[i]), SpeedOfLight)]

\* ToF._quantize_tof: np.floor(tof / time_resolution).astype(int)
QuantizeTof(tof, time_resolution) ==
    [i \in DOMAIN tof |-> tof[i].n \div (tof[i].d * time_resolution)]

\* lines 37-39 of __init__: temp_data with its Intensity and ToF_quantized columns
TempData(photon_data, time_resolution, mu_map) ==
    LET intensity == GenerateIntensityColumn(photon_data, mu_map)
        quantized == QuantizeTof(CalculateTof(photon_data), time_resolution)
    IN  [i \in DOMAIN photon_data |->
            [Intensity |-> IntensityValue(intensity[i]), ToF_quantized |-> quantized[i]]]

\* the rows of a group that count() and sum() look at: NaN is skipped
GroupRows(temp_data, b) ==
    {i \in DOMAIN temp_data : temp_data[i].ToF_quantized = b /\ temp_data[i].Intensity.k # "nan"}

GroupKeys(temp_data) == {temp_data[i].ToF_quantized : i \in DOMAIN temp_data}

\* temp_data.groupby("ToF_quantized", sort=True)["Intensity"].count()
GroupCount(temp_data) ==
    [b \in GroupKeys(temp_data) |-> Rat(Cardinality(GroupRows(temp_data, b)), 1)]

\* temp_data.groupby("ToF_quantized", sort=True)["Intensity"].sum()
GroupSum(temp_data) ==
    [b \in GroupKeys(temp_data) |->
        FloatSum([i \in DOMAIN temp_data |-> temp_data[i].Intensity], GroupRows(temp_data, b))]

\* np.log of a float is a number (not NaN): the float is positive or zero
LogIsNumber(v) == v.k \in {"pos", "pinf"} \/ (v.k = "num" /\ v.n >= 0)
IsPositiveFinite(v) == v.k = "pos" \/ (v.k = "num" /\ v.n > 0)

\* np.exp(np.log(series.reindex(range(lower_limit, upper_limit)))
\*            .interpolate(method="linear", limit_direction="both")) at bin b
LogInterpolated(series, lower_limit, upper_limit, b) ==
    LET valid == {c \in DOMAIN series :
                     c >= lower_limit /\ c < upper_limit /\ LogIsNumber(series[c])}
        below == {c \in valid : c < b}
        above == {c \in valid : c > b}
    IN  IF b \in valid THEN series[b]
        ELSE IF below = {} /\ above = {} THEN NaN
        ELSE IF below = {} THEN series[MinOf(above)]
        ELSE IF above = {} THEN series[MaxOf(below)]
        ELSE IF IsPositiveFinite(series[MaxOf(below)]) /\ IsPositiveFinite(series[MinOf(above)])
             THEN Pos
        ELSE Undecided

\* the body of the if of ToF._fill_data_gaps: reindex, log, interpolate, exp
GapsFilled(self, lower_limit, upper_limit) ==
    [self EXCEPT
        !.data = [b \in lower_limit..(upper_limit - 1) |->
                     LogInterpolated(self.data, lower_limit, upper_limit, b)],
        !.photon_count_per_bin =
            [b \in lower_limit..(upper_limit - 1) |->
                LogInterpolated(self.photon_count_per_bin, lower_limit, upper_limit, b)],
        !.interpolation_needed = TRUE]

\* a _fill_data_gaps() that leaves the gaps
FillDataGapsNever(self) == self

\* a _fill_data_gaps() that sets interpolation_needed whether it filled or not
FillDataGapsFlagAlways(self) ==
    IF DOMAIN self.data = {} THEN NoToF(ZeroSizeError)
    ELSE LET lower_limit == MinOf(DOMAIN self.data)
             upper_limit == MaxOf(DOMAIN self.data) + 1
         IN  IF Cardinality(DOMAIN self.data) < upper_limit - lower_limit
             THEN GapsFilled(self, lower_limit, upper_limit)
             ELSE [self EXCEPT !.interpolation_needed = TRUE]

\* ToF._fill_data_gaps
FillDataGaps(self) ==
    IF DOMAIN self.data = {} THEN NoToF(ZeroSizeError)
    ELSE LET lower_limit == MinOf(DOMAIN self.data)
             upper_limit == MaxOf(DOMAIN self.data) + 1
             expected_length == upper_limit - lower_limit
         IN  IF Cardinality(DOMAIN self.data) < expected_length
             THEN GapsFilled(self, lower_limit, upper_limit)
             ELSE self

\* a filter "self.data >= lower_intensity_bound"
BinsAtLeastBound(data, lower_intensity_bound) ==
    {b \in DOMAIN data : ~GreaterThan(lower_intensity_bound, data[b])}

\* the bins "self.data > lower_intensity_bound" keeps
BinsAboveBound(data, lower_intensity_bound) ==
    {b \in DOMAIN data : GreaterThan(data[b], lower_intensity_bound)}

\* lines 40-48 of __init__, on temp_data
ToFFromTempData(temp_data, time_resolution, lower_intensity_bound) ==
    LET photon_count_per_bin == GroupCount(temp_data)
        data == GroupSum(temp_data)
        kept == BinsAboveBound(data, lower_intensity_bound)
    IN  IF kept = {} THEN NoToF(ZeroSizeError)
        ELSE FillDataGaps(ToFObject(Loc(data, kept), Loc(photon_count_per_bin, kept),
                                    time_resolution, MinOf(kept), MaxOf(kept), FALSE))

\* ToF.__init__(photon_data, time_resolution, mu_map, None, lower_intensity_bound)
ToFInit(photon_data, time_resolution, mu_map, lower_intensity_bound) ==
    ToFFromTempData(TempData(photon_data, time_resolution, mu_map), time_resolution,
                    lower_intensity_bound)

\* the default of lower_intensity_bound: 1e-30 in the code, here a bound the integers
\* of the checker can hold.  The sums from_data compares with it are whole numbers, of
\* which every bound between 0 and 1 keeps the same.
DefaultLowerIntensityBound == Rat(1, 10 ^ 6)

\* temp_data of the dummy table from_data builds: one row per entry of data, its
\* 'L1 ppath' -log(d) * time_resolution and its mu 1.  For a positive finite d the
\* Intensity is d ** time_resolution, which for a time resolution of a fraction of a
\* second is 1 to within 1e-6, and the bin is floor(-log(d) * 1e-3 / SPEED_OF_LIGHT):
\* 0 for d <= 1 and -1 for d > 1.  For any other d the Intensity is 0 or NaN and the
\* time of flight is not finite: the row is in a group of its own kind, which the
\* bound removes, and is left out here.  n_above_one of the entries of which only the
\* sign is known are taken to be above 1.
DummyTempData(data, n_above_one) ==
    LET finite == {b \in DOMAIN data : IsPositiveFinite(data[b])}
        unknown == {b \in finite : data[b].k = "pos"}
        above_one == {b \in finite :
                         IF data[b].k = "num" THEN data[b].n > data[b].d
                         ELSE Cardinality({c \in unknown : c < b}) < n_above_one}
    IN  [b \in finite |->
            [Intensity |-> Rat(1, 1), ToF_quantized |-> IF b \in above_one THEN -1 ELSE 0]]

\* the entries of data of which only the sign is known
UnknownCount(data) == Cardinality({b \in DOMAIN data : data[b].k = "pos"})

\* a from_data that fills the gaps of the Series it was given
FromDataFilled(data, time_resolution, n_above_one) ==
    LET new_tof == ToFFromTempData(DummyTempData(data, n_above_one), time_resolution,
                                   DefaultLowerIntensityBound)
    IN  IF new_tof.raises # "" THEN new_tof
        ELSE FillDataGaps([new_tof EXCEPT !.data = data,
                                          !.lower_bin_index = MinOf(DOMAIN data),
                                          !.upper_bin_index = MaxOf(DOMAIN data)])

\* a from_data that leaves lower_bin_index and upper_bin_index as the constructor set them
FromDataDummyRange(data, time_resolution, n_above_one) ==
    LET new_tof == ToFFromTempData(DummyTempData(data, n_above_one), time_resolution,
                                   DefaultLowerIntensityBound)
    IN  IF new_tof.raises # "" THEN new_tof
        ELSE [new_tof EXCEPT !.data = data]

\* ToF.from_data(data, time_resolution)
FromData(data, time_resolution, n_above_one) ==
    LET new_tof == ToFFromTempData(DummyTempData(data, n_above_one), time_resolution,
                                   DefaultLowerIntensityBound)
    IN  IF new_tof.raises # "" THEN new_tof
        ELSE [new_tof EXCEPT !.data = data,
                             !.lower_bin_index = MinOf(DOMAIN data),
                             !.upper_bin_index = MaxOf(DOMAIN data)]

\* a check that looks at the ranges only
CheckRangesOnly(self, other) ==
    IF self.lower_bin_index > other.upper_bin_index THEN FALSE
    ELSE IF self.upper_bin_index < other.lower_bin_index THEN FALSE
    ELSE TRUE

\* ToF.check_operation_compatibility
CheckOperationCompatibility(self, other) ==
    IF self.time_resolution # other.time_resolution THEN FALSE
    ELSE IF self.lower_bin_index > other.upper_bin_index THEN FALSE
    ELSE IF self.upper_bin_index < other.lower_bin_index THEN FALSE
    ELSE TRUE

\* a new_data that keeps the bins of self that other lacks
NewDataLeft(self, other, operation) ==
    [b \in DOMAIN self.data |->
        IF b \in DOMAIN other.data
        THEN ApplyOperation(operation, self.data[b], other.data[b])
        ELSE self.data[b]]

\* a new_data with the operands the wrong way round
NewDataSwapped(self, other, operation) ==
    [b \in DOMAIN self.data \cap DOMAIN other.data |->
        ApplyOperation(operation, other.data[b], self.data[b])]

\* new_data of ToF._operate: the operation on the common bins
NewData(self, other, operation) ==
    LET common_bins == DOMAIN self.data \cap DOMAIN other.data
        common_data1 == Loc(self.data, common_bins)
        common_data2 == Loc(other.data, common_bins)
    IN  [b \in common_bins |-> ApplyOperation(operation, common_data1[b], common_data2[b])]

\* an _operate that does not check the compatibility
OperateUnchecked(self, other, operation, n_above_one) ==
    FromData([b \in DOMAIN self.data \cap DOMAIN other.data |->
                 ApplyOperation(operation, self.data[b], other.data[b])],
             self.time_resolution, n_above_one)

\* ToF._operate(other, operation), other a ToF
Operate(self, other, operation, n_above_one) ==
    IF ~CheckOperationCompatibility(self, other) THEN NoToF(IncompatibleError)
    ELSE FromData(NewData(self, other, operation), self.time_resolution, n_above_one)

(***************************************************************************)
(* The caller of ToF: it makes tof1 and tof2, from raw photon tables or    *)
(* from Series, then either drops a bin of tof1.data and calls             *)
(* _fill_data_gaps() as the test does, or checks the compatibility of the  *)
(* two, or applies an operator to them; the result of an operator may take *)
(* the place of tof1.                                                      *)
(***************************************************************************)
TimeResolutions == {1, 2}

\* the raw tables: one 'L1 ppath' column, the photons in the order of their path length
PhotonTables ==
    LET paths == UNION {[1..n -> 0..MaxPath] : n \in 1..MaxPhotons}
    IN  {[i \in DOMAIN t |-> (1 :> t[i])] :
            t \in {u \in paths : \A i \in 1..(Len(u) - 1) : u[i] <= u[i + 1]}}

\* the absorption map the raw tables are read with, and the bound given with them
ToFMuMap == (1 :> 1)
LowerIntensityBound == Rat(1, 8)

\* the Series a caller gives from_data
SeriesValues == {Rat(0, 1), Rat(1, 1), Rat(2, 1)}
SeriesInputs == UNION {[index -> SeriesValues] : index \in SUBSET (0..MaxBin)}

Operations == {"truediv", "mul", "add", "sub"}

ToFArgs(how, photon_data, data, time_resolution) ==
    [how |-> how, photon_data |-> photon_data, data |-> data,
     time_resolution |-> time_resolution]
NoArgs == ToFArgs("none", <<>>, <<>>, 0)

NoCheck == [called |-> FALSE, self |-> FALSE, other |-> FALSE, reverse |-> FALSE]

ToFRest(pc) ==
    /\ tof1 = NoToF("unset")
    /\ tof2 = NoToF("unset")
    /\ tof3 = NoToF("unset")
    /\ tof1_args = NoArgs
    /\ tof2_args = NoArgs
    /\ tof_operation = ""
    /\ tof_dropped = {}
    /\ tof_check = NoCheck
    /\ tof_chain = 0
    /\ tof_ids = [tof1 |-> 0, tof2 |-> 0, tof3 |-> 0]
    /\ tof_series = [called |-> FALSE, operation |-> "", other |-> Rat(0, 1), data |-> <<>>]
    /\ tof_pc = pc

ToFIdle == ToFRest("idle")

\* the caller has made nothing yet
ToFStart == ToFRest("start")

\* an object that shares its identity with the object tof1 is bound to
ReusedToF(ids) == ids.tof1

\* the object a call of ToF(...) makes: one that no name is bound to yet.  Objects are
\* numbered from 1, and 0 says that a name is bound to no instance.
NewToF(ids) == 1 + MaxOf({ids.tof1, ids.tof2, ids.tof3})

\* what a name bound to the object bound_to holds once the attributes of the object
\* new_id have been set to those of new_tof: a name bound to that very object sees them
AfterInit(bound_to, held, new_id, new_tof) ==
    IF new_tof.raises = "" /\ bound_to = new_id THEN new_tof ELSE held

\* the caller binds what a constructor gave: tof1 first, then tof2
Construct(new_tof, args) ==
    /\ LET new_id == IF new_tof.raises = "" THEN NewToF(tof_ids) ELSE 0
       IN  \/ /\ tof_pc = "start"
              /\ tof1' = new_tof
              /\ tof1_args' = args
              /\ tof_ids' = [tof_ids EXCEPT !.tof1 = new_id]
              /\ UNCHANGED <<tof2, tof2_args>>
           \/ /\ tof_pc = "one"
              /\ tof2' = new_tof
              /\ tof2_args' = args
              /\ tof_ids' = [tof_ids EXCEPT !.tof2 = new_id]
              /\ tof1' = AfterInit(tof_ids.tof1, tof1, new_id, new_tof)
              /\ UNCHANGED tof1_args
    /\ tof_pc' = IF new_tof.raises # "" THEN "raised"
                 ELSE IF tof_pc = "start" THEN "one" ELSE "two"
    /\ UNCHANGED <<tof3, tof_operation, tof_dropped, tof_check, tof_chain, tof_series>>
    /\ UNCHANGED <<opt_vars, jac_vars, fn_vars>>

\* ToF(photon_data, time_resolution, mu_map, None, lower_intensity_bound)
ToFInitCall ==
    /\ tof_pc \in {"start", "one"}
    /\ \E photon_data \in PhotonTables, time_resolution \in TimeResolutions :
        Construct(ToFInit(photon_data, time_resolution, ToFMuMap, LowerIntensityBound),
                  ToFArgs("raw", photon_data, <<>>, time_resolution))

\* ToF.from_data(data, time_resolution)
FromDataCall ==
    /\ tof_pc \in {"start", "one"}
    /\ \E data \in SeriesInputs, time_resolution \in TimeResolutions :
        Construct(FromData(data, time_resolution, 0),
                  ToFArgs("from_data", <<>>, data, time_resolution))

\* tof1.data.drop(index_to_drop, inplace=True)
DropBin ==
    /\ tof_pc = "one"
    /\ \E index_to_drop \in DOMAIN tof1.data :
          /\ tof1' = [tof1 EXCEPT !.data = Loc(tof1.data, DOMAIN tof1.data \ {index_to_drop})]
          /\ tof_dropped' = {index_to_drop}
    /\ tof_pc' = "dropped"
    /\ UNCHANGED <<tof2, tof3, tof1_args, tof2_args, tof_operation, tof_check, tof_chain,
                   tof_ids, tof_series>>
    /\ UNCHANGED <<opt_vars, jac_vars, fn_vars>>

HasUndecided(series) == \E b \in DOMAIN series : series[b].k = "undecided"

\* tof1._fill_data_gaps()
FillDataGapsCall ==
    /\ tof_pc = "dropped"
    /\ LET filled == FillDataGaps(tof1)
       IN  /\ ~HasUndecided(filled.data)
           /\ ~HasUndecided(filled.photon_count_per_bin)
           /\ IF filled.raises # ""
              THEN /\ tof_pc' = "raised"
                   /\ UNCHANGED tof1
              ELSE /\ tof_pc' = "filled"
                   /\ tof1' = filled
    /\ UNCHANGED <<tof2, tof3, tof1_args, tof2_args, tof_operation, tof_dropped, tof_check,
                   tof_chain, tof_ids, tof_series>>
    /\ UNCHANGED <<opt_vars, jac_vars, fn_vars>>

\* tof1.check_operation_compatibility(tof1), (tof2), and tof2's of tof1
CheckCompatibilityCall ==
    /\ tof_pc = "two"
    /\ tof_check' = [called |-> TRUE,
                     self |-> CheckOperationCompatibility(tof1, tof1),
                     other |-> CheckOperationCompatibility(tof1, tof2),
                     reverse |-> CheckOperationCompatibility(tof2, tof1)]
    /\ tof_pc' = "checked"
    /\ UNCHANGED <<tof1, tof2, tof3, tof1_args, tof2_args, tof_operation, tof_dropped,
                   tof_chain, tof_ids, tof_series>>
    /\ UNCHANGED <<opt_vars, jac_vars, fn_vars>>

\* tof3 = tof1 <operation> tof2.  Left out: an operation whose result the signs do not
\* decide, and one that leaves +inf in new_data (the dummy table of from_data then holds
\* a row whose infinite time of flight decides a bin that survives the bound).
OperateCall ==
    /\ tof_pc = "two"
    /\ \E operation \in Operations :
          LET compatible == CheckOperationCompatibility(tof1, tof2)
              new_data == NewData(tof1, tof2, operation)
          IN  /\ compatible => \A b \in DOMAIN new_data : new_data[b].k \notin {"undecided", "pinf"}
              /\ \E n_above_one \in 0..(IF compatible THEN UnknownCount(new_data) ELSE 0) :
                    LET new_tof == Operate(tof1, tof2, operation, n_above_one)
                        new_id == IF new_tof.raises = "" THEN NewToF(tof_ids) ELSE 0
                    IN  /\ tof3' = new_tof
                        /\ tof_ids' = [tof_ids EXCEPT !.tof3 = new_id]
                        /\ tof1' = AfterInit(tof_ids.tof1, tof1, new_id, new_tof)
                        /\ tof2' = AfterInit(tof_ids.tof2, tof2, new_id, new_tof)
              /\ tof_operation' = operation
    /\ tof_pc' = "operated"
    /\ UNCHANGED <<tof1_args, tof2_args, tof_dropped, tof_check, tof_chain, tof_series>>
    /\ UNCHANGED <<opt_vars, jac_vars, fn_vars>>

\* tof1 = tof3: the result of the operator is the left operand of the next one
ReuseResult ==
    /\ tof_pc = "operated"
    /\ tof3.raises = ""
    /\ tof_chain < MaxChain
    /\ tof1' = tof3
    /\ tof1_args' = ToFArgs("operator", <<>>, <<>>, tof3.time_resolution)
    /\ tof3' = NoToF("unset")
    /\ tof_operation' = ""
    /\ tof_chain' = tof_chain + 1
    /\ tof_ids' = [tof_ids EXCEPT !.tof1 = tof_ids.tof3, !.tof3 = 0]
    /\ tof_pc' = "two"
    /\ UNCHANGED <<tof2, tof2_args, tof_dropped, tof_check, tof_series>>
    /\ UNCHANGED <<opt_vars, jac_vars, fn_vars>>

\* ToF._operate(other, operation), other not a ToF: operation(self.data, other)
OperateScalar(self, other, operation) ==
    [b \in DOMAIN self.data |-> ApplyOperation(operation, self.data[b], other)]

\* series = tof1 <operation> other, other a number.  Left out, as in the operator of two
\* ToFs: an operation whose result the signs do not decide.
ScalarOperateCall ==
    /\ tof_pc = "one"
    /\ \E operation \in Operations, other \in {Rat(0, 1), Rat(2, 1)} :
          LET series == OperateScalar(tof1, other, operation)
          IN  /\ ~HasUndecided(series)
              /\ tof_series' = [called |-> TRUE, operation |-> operation, other |-> other,
                                data |-> series]
    /\ tof_pc' = "scalar_operated"
    /\ UNCHANGED <<tof1, tof2, tof3, tof1_args, tof2_args, tof_operation, tof_dropped,
                   tof_check, tof_chain, tof_ids>>
    /\ UNCHANGED <<opt_vars, jac_vars, fn_vars>>

ToFNext ==
    \/ ToFInitCall
    \/ FromDataCall
    \/ DropBin
    \/ FillDataGapsCall
    \/ CheckCompatibilityCall
    \/ OperateCall
    \/ ScalarOperateCall
    \/ ReuseResult

(***************************************************************************)
(* Functions a caller calls on their own: derivative_mu_map_gen,           *)
(* calculate_jacobian_numerical, generate_intensity_column.                *)
(***************************************************************************)
\* no call has been made
NotCalled == [raises |-> "not called"]

FnIdle ==
    /\ fn_args = [fn |-> "none"]
    /\ fn_ret = NotCalled

\* mu_a_eqn.derivative_mu_map_gen(base_mu_map, maternal_sat, ..., dx, delta)
DerivativeMuMapGenCall ==
    /\ fn_args.fn = "derivative_mu_map_gen"
    /\ fn_ret = NotCalled
    /\ LET op == fn_args.operating_point
       IN  fn_ret' = DerivativeMuMapGen(fn_args.mu_a_eqn, fn_args.base_mu_map,
                                        op.maternal_sat, op.maternal_hb, op.fetal_sat,
                                        op.fetal_hb, op.wave_int, fn_args.dx, fn_args.delta)
    /\ UNCHANGED <<fn_args, opt_vars, jac_vars, tof_vars>>

\* a call that raised, a call that returned value
Raised(exception) == [raises |-> exception]
Returned(value) == [raises |-> "", value |-> value]

\* photon_data["SDD"].unique(): the values in the order they first appear
RECURSIVE Unique(_)
Unique(column) ==
    IF column = <<>> THEN <<>>
    ELSE LET rest == Unique(SubSeq(column, 1, Len(column) - 1))
             last == column[Len(column)]
         IN  IF \E i \in DOMAIN rest : rest[i] = last THEN rest ELSE Append(rest, last)

\* derivative_mapping
DerivativeMapping(derivative_format) ==
    IF derivative_format = "regular" THEN "RegularDerivative"
    ELSE IF derivative_format = "norm_der" THEN "NormalizedDerivative"
    ELSE "LogDerivative"

\* calculate_jacobian_numerical.  sdd_list is a record: none says that None was given.
\* The constructor is called with six positional arguments, so its parameter dx takes
\* delta, its parameter mu_a_eqn takes the str dx, and its delta keeps the default.
\* The intensities are taken without the division by the detector constants of
\* inverse_modelling_tfo.data.  A str given as mu_a_eqn is kept as a record of cls "str".
CalculateJacobianNumerical(derivative_format, photon_data, sdd_index, base_mu_map, delta, dx, sdd_list, maternal_hb, maternal_sat, fetal_hb, fetal_sat, wave_int) ==
    LET sdds == IF sdd_list.none
                THEN Unique([i \in DOMAIN photon_data |-> photon_data[i][0]])
                ELSE sdd_list.list
    IN  IF sdd_index + 1 \notin DOMAIN sdds THEN Raised("IndexError")
        ELSE
        LET sdd == sdds[sdd_index + 1]
            filtered_photon_data == SelectSeq(photon_data, LAMBDA row : row[0] = sdd)
            operating_point ==
                [maternal_hb |-> maternal_hb, maternal_sat |-> maternal_sat,
                 fetal_hb |-> fetal_hb, fetal_sat |-> fetal_sat, wave_int |-> wave_int]
            mu_a_eqn == [cls |-> "str", value |-> dx]
            raises == NumericalInitRaises(operating_point, base_mu_map, delta, mu_a_eqn,
                                          DefaultDelta)
        IN  IF raises # "" THEN Raised(raises)
            ELSE Returned(NumCalculateJacobian(
                     NumericalInit(DerivativeMapping(derivative_format),
                                   filtered_photon_data, operating_point, base_mu_map,
                                   delta, mu_a_eqn, DefaultDelta)))

CalculateJacobianNumericalCall ==
    /\ fn_args.fn = "calculate_jacobian_numerical"
    /\ fn_ret = NotCalled
    /\ LET op == fn_args.operating_point
       IN  fn_ret' = CalculateJacobianNumerical(
                         fn_args.derivative_format, fn_args.photon_data, fn_args.sdd_index,
                         fn_args.base_mu_map, fn_args.delta, fn_args.dx, fn_args.sdd_list,
                         op.maternal_hb, op.maternal_sat, op.fetal_hb, op.fetal_sat,
                         op.wave_int)
    /\ UNCHANGED <<fn_args, opt_vars, jac_vars, tof_vars>>

\* the assert of generate_intensity_column failing only when columns are missing
AssertEnoughColumns(photon_data, mu_map) ==
    Cardinality(PartialPathColumns(photon_data)) < Cardinality(DOMAIN mu_map)

\* the assert of generate_intensity_column fails
AssertFails(photon_data, mu_map) ==
    Cardinality(PartialPathColumns(photon_data)) # Cardinality(DOMAIN mu_map)

\* generate_intensity_column(photon_data, mu_map, sdd_index) with its assert.  sdd_index
\* is <<>> for None and <<i>> for i; the division by the detector constants of
\* inverse_modelling_tfo.data is kept as the index divided by.
GenerateIntensityColumnAsserted(photon_data, mu_map, sdd_index) ==
    IF AssertFails(photon_data, mu_map)
    THEN Raised("AssertionError: mu_map & partial path data length mismatch")
    ELSE Returned([intensity |-> GenerateIntensityColumn(photon_data, mu_map),
                   divided_by |-> sdd_index])

GenerateIntensityColumnCall ==
    /\ fn_args.fn = "generate_intensity_column"
    /\ fn_ret = NotCalled
    /\ fn_ret' = GenerateIntensityColumnAsserted(fn_args.photon_data, fn_args.mu_map,
                                                 fn_args.sdd_index)
    /\ UNCHANGED <<fn_args, opt_vars, jac_vars, tof_vars>>

\* the function a caller calls, with its arguments
FnInit ==
    /\ \/ \* the arguments of mu_a_eqn.derivative_mu_map_gen(...): a base map with an entry for
       \* each layer or one without the layers 1 and 4; an axis of DxTypes or one that names
       \* no quantity
          fn_args \in
          [fn : {"derivative_mu_map_gen"},
           mu_a_eqn : MuAEqns,
           base_mu_map : {BaseMuMap, (2 :> 1) @@ (3 :> 2)},
           operating_point : OperatingPoints,
           dx : DxTypes \cup {"M", "F"},
           delta : 1..MaxDelta]
       \/ \* the arguments of calculate_jacobian_numerical(...): the full photon tables are the
       \* rows of PhotonData, each with an SDD
          fn_args \in
          [fn : {"calculate_jacobian_numerical"},
           derivative_format : {"regular", "norm_der", "log"},
           photon_data : {[i \in DOMAIN PhotonData |-> (0 :> sdds[i]) @@ PhotonData[i]] :
                              sdds \in [DOMAIN PhotonData -> {10, 20}]},
           sdd_index : 0..2,
           base_mu_map : {BaseMuMap},
           delta : 1..MaxDelta,
           dx : DxTypes,
           sdd_list : {[none |-> TRUE, list |-> <<>>], [none |-> FALSE, list |-> <<10, 20>>]},
           operating_point : OperatingPoints]
       \/ \* the arguments of generate_intensity_column(...): tables of 1..MaxPhotons photons
       \* with one or two path columns, with and without an SDD column, and maps of
       \* no to three layers
          fn_args \in
          [fn : {"generate_intensity_column"},
           photon_data : UNION {[1..n -> [cols -> 0..1]] :
                                   n \in 1..MaxPhotons, cols \in {{1}, {0, 1}, {1, 2}, {0, 1, 2}}},
           mu_map : UNION {[1..k -> 1..2] : k \in 0..3},
           sdd_index : {<<>>, <<0>>}]
       \/ \* generate_intensity_column(...) on a table of one photon that has the path
       \* columns of MaxLayers layers, the photon's path in one layer, and a map of the
       \* layers 1..MaxLayers with one coefficient that is not 1
          fn_args \in
          [fn : {"generate_intensity_column"},
           photon_data : {<<[c \in 1..MaxLayers |-> IF c = l THEN 1 ELSE 0]>> :
                             l \in 1..MaxLayers},
           mu_map : {[n \in 1..MaxLayers |-> IF n = l THEN 2 ELSE 1] : l \in 1..MaxLayers},
           sdd_index : {<<>>, <<0>>}]
    /\ fn_ret = NotCalled

FnNext ==
    \/ DerivativeMuMapGenCall
    \/ CalculateJacobianNumericalCall
    \/ GenerateIntensityColumnCall

(***************************************************************************)
(* test_tof.py, OptimizationTest: the target functions the tests give to   *)
(* two_pointer_discrete_optimize, range sums over a Series.                *)
(***************************************************************************)
\* a Series such as self.data1, self.data2: values over a range of index labels
DataSeries ==
    UNION {[(p[1])..(p[2]) -> (0 - MaxData)..MaxData] : p \in ScanPairs(0, MaxIdx)}

\* data.loc[left : right + 1].sum(): a slice by label takes both of its ends
LocSum(data, left, right) ==
    SumF(data, DOMAIN data \cap (left..(right + 1)))

\* data.iloc[left : right + 1] taking one position more than it does
IlocSumOneMore(data, left, right) ==
    SumF(data, DOMAIN data \cap {MinOf(DOMAIN data) + k : k \in left..(right + 1)})

\* data.iloc[left : right + 1].sum(): a slice by position leaves its end out
IlocSum(data, left, right) ==
    SumF(data, DOMAIN data \cap {MinOf(DOMAIN data) + k : k \in left..right})

\* def target_func(left, right): return data.<how>[left : right + 1].sum()
TargetFunc(how, data) ==
    [p \in ScanPairs(0, MaxIdx) |->
        IF how = "loc" THEN LocSum(data, p[1], p[2]) ELSE IlocSum(data, p[1], p[2])]

\* a test: target_func is a range sum over some Series
OptTestInit ==
    /\ target_func \in {TargetFunc(how, data) : how \in {"loc", "iloc"}, data \in DataSeries}
    /\ OptStart

(***************************************************************************)
(* The claims about the Jacobian calculators (under SpecJac).              *)
(***************************************************************************)
\* the operating point the instance's fields hold now
CurrentOperatingPoint(self) ==
    [maternal_hb |-> self.maternal_hb, maternal_sat |-> self.maternal_sat,
     fetal_hb |-> self.fetal_hb, fetal_sat |-> self.fetal_sat, wave_int |-> self.wave_int]

\* a calculator like self, constructed now at the operating point self's fields hold
FreshNumerical(self) ==
    NumericalInit(self.cls, self.filtered_photon_data, CurrentOperatingPoint(self),
                  self.base_mu_map, self.dx, self.mu_a_eqn, self.delta)

FreshAnalytical(self) ==
    [AnalyticalInit(self.cls, self.filtered_photon_data, self.base_mu_map, self.dx,
                    self.maternal_hb, self.maternal_sat, self.fetal_hb, self.fetal_sat,
                    self.wave_int, self.mu_a_eqn, self.normalize_derivative)
     EXCEPT !.arterial_volume_fraction = self.arterial_volume_fraction,
            !.venous_saturation_reduction_factor = self.venous_saturation_reduction_factor]

\* C1: whenever calculate_jacobian() of a numerical calculator (RegularDerivative,
\* NormalizedDerivative, LogDerivative) has returned, the value is the one a calculator
\* freshly constructed at the instance's current operating point fields returns, also
\* when the caller has changed those fields since the construction or the last call.
C1_NumericalCallUsesCurrentOperatingPoint ==
    (jc.family = "numerical" /\ jc_pc = "returned")
        => SameFloat(jc_ret, NumCalculateJacobian(FreshNumerical(jc)))

\* C2: whenever calculate_jacobian() of an analytical calculator has returned or raised,
\* the instance's mu_map, eps, eps_hbo and eps_hhb are the ones computed from the
\* maternal/fetal hb, sat and wave_int fields it holds now, and a returned value is the
\* one a calculator freshly constructed from those fields returns.
C2_AnalyticalCallRebuildsFromCurrentFields ==
    (jc.family = "analytical" /\ jc_pc \in {"returned", "raised"})
        => LET fresh == FreshAnalytical(jc)
           IN  /\ jc.mu_map = fresh.mu_map
               /\ jc.eps = fresh.eps
               /\ jc.eps_hbo = fresh.eps_hbo
               /\ jc.eps_hhb = fresh.eps_hhb
               /\ jc_pc = "returned" => SameFloat(jc_ret, AnaDerivative(fresh))

\* C2 witness: an analytical calculator was called, the caller then changed an operating
\* point field, and a second call has returned.
C2_Witness ==
    /\ jc.family = "analytical"
    /\ jc_pc = "returned"
    /\ jc_trace = "recalled"

\* the names of the maps that are bound to a dict: the instance's, and with base_mu_map
\* the caller's
MapNames == {"mu_map", "mu_map1", "mu_map2"}
BoundMaps == {name \in MapNames : jc_dicts[name] # 0}

\* C24: whenever a calculator has been constructed, and after every calculate_jacobian()
\* call and every change of its fields, the caller's base_mu_map holds the entries it
\* was given with; the base, plus and minus maps of the calculator are dicts of their
\* own, none of them the caller's dict and no two of them the same dict, and each holds
\* the entries the calculator computed for it.
C24_BaseMuMapIsNeverModified ==
    /\ jc_dicts.heap[jc_dicts.base_mu_map] = BaseMuMap
    /\ jc.base_mu_map = BaseMuMap
    /\ BoundMaps = IF jc.family = "numerical" THEN MapNames ELSE {"mu_map"}
    /\ \A name \in BoundMaps :
          /\ jc_dicts[name] # jc_dicts.base_mu_map
          /\ jc_dicts.heap[jc_dicts[name]] = jc[name]
          /\ \A other \in BoundMaps \ {name} : jc_dicts[other] # jc_dicts[name]

\* C24 witness: an analytical calculator was called, one of its fields was changed and
\* it was called again; its base map differs from the caller's map at the layers 1 and 4.
C24_Witness ==
    /\ jc.family = "analytical"
    /\ jc_trace = "recalled"
    /\ jc.mu_map[1] # BaseMuMap[1]
    /\ jc.mu_map[4] # BaseMuMap[4]
    /\ jc_dicts.heap[jc_dicts.mu_map] = jc.mu_map

(***************************************************************************)
(* The claims about the range optimizers (under SpecOpt).                  *)
(***************************************************************************)
\* C10: when two_pointer_brute_force_optimize has returned (left, right, optimum), the
\* target function has been evaluated on every pair left_init <= i <= j <= right_init,
\* optimum is the largest (mode max) or smallest (mode min) of those values,
\* left_init <= left <= right <= right_init, and f(left, right) = optimum.
C10_BruteForceReturnsGlobalOptimum ==
    opt_pc = "bf_done" =>
        LET pairs == ScanPairs(left_pointer_init, right_pointer_init)
            left == bf_result[1]
            right == bf_result[2]
            optimum == bf_result[3]
        IN  /\ pairs \subseteq DOMAIN target_func
            /\ \A p \in pairs : IF optima_type = "max" THEN target_func[p] <= optimum
                                ELSE target_func[p] >= optimum
            /\ left_pointer_init <= left /\ left <= right /\ right <= right_pointer_init
            /\ target_func[<<left, right>>] = optimum

\* C10 witness: a scan that starts above 0, in mode min, whose optimum is not at its
\* first pair.
C10_Witness ==
    /\ opt_pc = "bf_done"
    /\ optima_type = "min"
    /\ left_pointer_init = 1
    /\ right_pointer_init = 2
    /\ target_func[<<1, 1>>] = 1
    /\ bf_result = <<1, 2, 0>>

\* how many times two_pointer_discrete_optimize has moved a pointer
PointerMoves == (left_pointer - left_pointer_init) + (right_pointer_init - right_pointer)

\* new is strictly better than old in the mode of the call
StrictlyBetter(new, old) ==
    \/ optima_type = "max" /\ new > old
    \/ optima_type = "min" /\ new < old

\* two_pointer_discrete_optimize has returned left_pointer, right_pointer, optimum_value
DiscreteReturned == opt_pc = "greedy_done"

\* what C11 says of every state: the bound on the moves, and the returned pointers
DiscreteStopsAtLocalOptimum ==
    /\ PointerMoves <= right_pointer_init - left_pointer_init
    /\ DiscreteReturned =>
          \/ left_pointer = right_pointer
          \/ LET pl == <<left_pointer + 1, right_pointer>>
                 pr == <<left_pointer, right_pointer - 1>>
             IN  /\ pl \in DOMAIN target_func
                 /\ pr \in DOMAIN target_func
                 /\ ~StrictlyBetter(target_func[pl], optimum_value)
                 /\ ~StrictlyBetter(target_func[pr], optimum_value)

\* C11: two_pointer_discrete_optimize, once in its loop, returns; it never makes more
\* than right_init - left_init pointer moves; and when it has returned, either
\* left == right or neither f(left+1, right) nor f(left, right-1) is strictly better
\* than the returned optimum.
C11_DiscreteTerminatesAtLocalOptimum ==
    /\ []DiscreteStopsAtLocalOptimum
    /\ (opt_pc = "greedy_loop") ~> DiscreteReturned

\* C11 witness: the loop moved a pointer and then stopped with left < right, because no
\* neighbour was better.
C11_Witness ==
    /\ DiscreteReturned
    /\ PointerMoves >= 1
    /\ left_pointer < right_pointer

\* all the values f has returned are one value
ConstantSoFar == \A p, q \in DOMAIN target_func : target_func[p] = target_func[q]

\* C12: a step of two_pointer_discrete_optimize that moves a pointer moves one pointer
\* one position inward, to a pair whose value is strictly better than the optimum before
\* the step, and that value is the new optimum; and when f has returned one value
\* throughout, the result is (left_init, right_init, f(left_init, right_init)).
C12_PointerMovesOnlyOnStrictImprovement ==
    /\ [][(left_pointer' # left_pointer \/ right_pointer' # right_pointer) =>
            LET p == <<left_pointer', right_pointer'>>
            IN  /\ \/ left_pointer' = left_pointer + 1 /\ right_pointer' = right_pointer
                   \/ left_pointer' = left_pointer /\ right_pointer' = right_pointer - 1
                /\ p \in DOMAIN target_func'
                /\ StrictlyBetter(target_func'[p], optimum_value)
                /\ optimum_value' = target_func'[p]]_vars
    /\ []((DiscreteReturned /\ ConstantSoFar) =>
            /\ left_pointer = left_pointer_init
            /\ right_pointer = right_pointer_init
            /\ optimum_value = target_func[<<left_pointer_init, right_pointer_init>>])

\* C12 witness: f returned the same value for the initial pair and for its two
\* neighbours, and the call returned the initial pointers.
C12_Witness ==
    /\ DiscreteReturned
    /\ left_pointer_init < right_pointer_init
    /\ ConstantSoFar
    /\ Cardinality(DOMAIN target_func) = 3
    /\ left_pointer = left_pointer_init
    /\ right_pointer = right_pointer_init

\* the caller has called two_pointer_discrete_optimize: its locals hold its state
DiscreteCalled == "two_pointer_discrete_optimize" \in opt_called

\* both optimizers have returned, called with the same target function, initial
\* pointers and mode
BothReturned ==
    /\ DiscreteCalled
    /\ opt_pc = "bf_done"

\* C25: two_pointer_discrete_optimize is only a local hill climb: whenever both
\* optimizers have returned for the same target function, initial pointers and mode, the
\* greedy optimum is never strictly better than the brute force optimum -- and there are
\* target functions (C25_Witness) for which it is strictly worse.
C25_GreedyIsAtBestTheBruteForceOptimum ==
    BothReturned => ~StrictlyBetter(optimum_value, bf_result[3])

\* C25 witness: mode max on the range 0..2; the greedy search stopped at a value that
\* the brute force scan beats.
C25_Witness ==
    /\ BothReturned
    /\ optima_type = "max"
    /\ left_pointer_init = 0
    /\ right_pointer_init = 2
    /\ StrictlyBetter(bf_result[3], optimum_value)

\* what C28 says of every state of two_pointer_discrete_optimize, its return included
DiscreteLoopInvariant ==
    DiscreteCalled =>
        /\ <<left_pointer, right_pointer>> \in DOMAIN target_func
        /\ optimum_value = target_func[<<left_pointer, right_pointer>>]
        /\ left_pointer_init <= left_pointer
        /\ left_pointer <= right_pointer
        /\ right_pointer <= right_pointer_init

\* C28: in every state of two_pointer_discrete_optimize and on return, optimum_value is
\* f(left_pointer, right_pointer) and left_init <= left_pointer <= right_pointer <=
\* right_init; and from one step of the loop to the next the optimum never decreases in
\* mode max and never increases in mode min.
C28_DiscreteKeepsItsInvariants ==
    /\ []DiscreteLoopInvariant
    /\ [][DiscreteCalled =>
            IF optima_type = "max" THEN optimum_value' >= optimum_value
            ELSE optimum_value' <= optimum_value]_vars

\* C28 witness: a call in mode min on the range 0..2 that moved its right pointer to a
\* smaller value, looked at both neighbours again and returned.
C28_Witness ==
    /\ DiscreteReturned
    /\ optima_type = "min"
    /\ left_pointer_init = 0
    /\ right_pointer_init = 2
    /\ left_pointer = 0
    /\ right_pointer = 1
    /\ target_func[<<0, 2>>] = 1
    /\ optimum_value = 0
    /\ <<0, 0>> \in DOMAIN target_func

\* C29: both optimizers call the target function only on pairs (l, r) with
\* left_init <= l <= r <= right_init; two_pointer_discrete_optimize never evaluates a
\* pair with l > r, also when its pointers are adjacent or equal.
C29_TargetFunctionIsCalledInsideTheRange ==
    \A p \in DOMAIN target_func :
        /\ left_pointer_init <= p[1]
        /\ p[1] <= p[2]
        /\ p[2] <= right_pointer_init

\* C29 witness: the greedy loop went through adjacent pointers to equal pointers and
\* returned, and the brute force scan of the same range returned after it.
C29_Witness ==
    /\ BothReturned
    /\ left_pointer_init < right_pointer_init
    /\ PointerMoves >= 1
    /\ left_pointer = right_pointer
    /\ <<left_pointer + 1, right_pointer>> \notin DOMAIN target_func

(***************************************************************************)
(* The claims about two_pointer_discrete_optimize on range sums (under     *)
(* SpecOptTest).                                                           *)
(***************************************************************************)
PositiveSeries == {data \in DataSeries : \A i \in DOMAIN data : data[i] > 0}
Total(data) == SumF(data, DOMAIN data)
FirstLabel(data) == MinOf(DOMAIN data)
LastLabel(data) == MaxOf(DOMAIN data)
InitPointers == <<left_pointer_init, right_pointer_init>>
DiscreteResult == <<left_pointer, right_pointer, optimum_value>>

\* C13: in mode max, with f the range sum of a Series of strictly positive values,
\* two_pointer_discrete_optimize started on the whole range of the Series returns the
\* initial pointers and the sum of all the values: with the sum by position started
\* at (0, len - 1), and with the sum by label started at the first and the last label
\* or, as the test does, at the first label and one past the last.
C13_MaxOfPositiveSumIsWholeRange ==
    (DiscreteReturned /\ optima_type = "max") =>
        \A data \in PositiveSeries :
            LET lo == FirstLabel(data)
                hi == LastLabel(data)
            IN  /\ (target_func = TargetFunc("iloc", data) /\ InitPointers = <<0, hi - lo>>)
                      => DiscreteResult = <<0, hi - lo, Total(data)>>
                /\ (target_func = TargetFunc("loc", data)
                        /\ InitPointers \in {<<lo, hi>>, <<lo, hi + 1>>})
                      => DiscreteResult =
                            <<left_pointer_init, right_pointer_init, Total(data)>>

\* C13 witness: a max call on the sum by position of three positive values, started at
\* (0, 2), has returned (0, 2, total).
C13_Witness ==
    /\ DiscreteReturned
    /\ optima_type = "max"
    /\ \E data \in PositiveSeries :
          /\ DOMAIN data = 0..2
          /\ target_func = TargetFunc("iloc", data)
          /\ InitPointers = <<0, 2>>
          /\ DiscreteResult = <<0, 2, Total(data)>>

\* C14: in mode min, with f(l, r) = data.loc[l : r + 1].sum() over a Series of strictly
\* positive values, two_pointer_discrete_optimize started at the first label and one
\* past the last label returns both pointers one past the last label and the optimum 0.
C14_MinOfPositiveLocSumFromOnePastTheEnd ==
    (DiscreteReturned /\ optima_type = "min") =>
        \A data \in PositiveSeries :
            LET lo == FirstLabel(data)
                hi == LastLabel(data)
            IN  (target_func = TargetFunc("loc", data) /\ InitPointers = <<lo, hi + 1>>)
                    => DiscreteResult = <<hi + 1, hi + 1, 0>>

\* C14 as it was stated: started at the first and the last index of the Series, the
\* call returns left == right and the optimum 0, f being the sum by label or the sum
\* by position.
C14_MinOfPositiveSumFromFullRange ==
    (DiscreteReturned /\ optima_type = "min") =>
        \A data \in PositiveSeries :
            LET lo == FirstLabel(data)
                hi == LastLabel(data)
            IN  (/\ target_func \in {TargetFunc("loc", data), TargetFunc("iloc", data)}
                 /\ InitPointers = <<lo, hi>>)
                    => left_pointer = right_pointer /\ optimum_value = 0

\* C14 witness: a min call on the sum by label of two positive values at the labels 0
\* and 1, started at (0, 2), has returned (2, 2, 0).
C14_Witness ==
    /\ DiscreteReturned
    /\ optima_type = "min"
    /\ \E data \in PositiveSeries :
          /\ DOMAIN data = 0..1
          /\ target_func = TargetFunc("loc", data)
          /\ InitPointers = <<0, 2>>
          /\ DiscreteResult = <<2, 2, 0>>

\* the Series with at least one value between its first and its last, these two
\* negative and the values between them positive
NegativeEnds ==
    {data \in DataSeries :
        /\ FirstLabel(data) + 1 < LastLabel(data)
        /\ data[FirstLabel(data)] < 0
        /\ data[LastLabel(data)] < 0
        /\ \A i \in DOMAIN data \ {FirstLabel(data), LastLabel(data)} : data[i] > 0}

MuMapsReturned == fn_args.fn = "derivative_mu_map_gen" /\ fn_ret.raises = ""

\* the absorption of the maternal ("M") or the fetal ("F") layer under the strategy
\* mu_a_eqn, for the saturation and the hemoglobin given
LayerMuA(mu_a_eqn, side, sat, hb, wave_int) ==
    IF mu_a_eqn.cls = "FullBloodJacobianMuAEqn" THEN GetMuA(sat, hb, wave_int)
    ELSE IF side = "M"
    THEN GetTissueMuA(mu_a_eqn.maternal_blood_volume_fraction, hb, sat, wave_int,
                      mu_a_eqn.maternal_arterial_fraction,
                      mu_a_eqn.maternal_venous_saturation_reduction_factor)
    ELSE GetTissueMuA(mu_a_eqn.fetal_blood_volume_fraction, hb, sat, wave_int,
                      mu_a_eqn.fetal_arterial_fraction,
                      mu_a_eqn.fetal_venous_saturation_reduction_factor)

\* C16: the base map derivative_mu_map_gen returns holds at layer 1 the absorption for
\* the maternal saturation and hemoglobin of the operating point, at layer 4 the one
\* for the fetal saturation and hemoglobin, whatever the axis, and at every other layer
\* the entry of the base map it was given.
C16_BaseMapOverwritesLayers1And4 ==
    MuMapsReturned =>
        LET op == fn_args.operating_point
            mu_map == fn_ret.mu_map
        IN  /\ DOMAIN mu_map = DOMAIN fn_args.base_mu_map \cup {1, 4}
            /\ mu_map[1] = LayerMuA(fn_args.mu_a_eqn, "M", op.maternal_sat, op.maternal_hb,
                                    op.wave_int)
            /\ mu_map[4] = LayerMuA(fn_args.mu_a_eqn, "F", op.fetal_sat, op.fetal_hb,
                                    op.wave_int)
            /\ \A layer \in DOMAIN fn_args.base_mu_map \ {1, 4} :
                  mu_map[layer] = fn_args.base_mu_map[layer]

\* C16 witness: a PartialBlood call on a fetal axis returned a base map whose layer 1
\* differs from the entry of the base map given.
C16_Witness ==
    /\ MuMapsReturned
    /\ fn_args.mu_a_eqn.cls = "PartialBloodJacobianMuAEqn"
    /\ fn_args.dx = "FS"
    /\ fn_args.base_mu_map = BaseMuMap
    /\ fn_ret.mu_map[1] # BaseMuMap[1]
    /\ fn_ret.mu_map[2] = BaseMuMap[2]

\* C17: for the axes MC, MS, FC, FS the plus map and the minus map are the returned
\* base map except at the affected layer (1 for M, 4 for F), where they hold the
\* absorption with the hemoglobin (C) or the saturation (S) of that layer raised in
\* the plus map, lowered in the minus map, by delta, and nothing else changed.
C17_PlusAndMinusMapsChangeOneQuantity ==
    (MuMapsReturned /\ fn_args.dx \in {"MC", "MS", "FC", "FS"}) =>
        LET op == fn_args.operating_point
            dx == fn_args.dx
            side == IF dx \in {"MC", "MS"} THEN "M" ELSE "F"
            layer == IF side = "M" THEN 1 ELSE 4
            sat == IF side = "M" THEN op.maternal_sat ELSE op.fetal_sat
            hb == IF side = "M" THEN op.maternal_hb ELSE op.fetal_hb
            d_hb == IF dx \in {"MC", "FC"} THEN fn_args.delta ELSE 0
            d_sat == IF dx \in {"MS", "FS"} THEN fn_args.delta ELSE 0
        IN  /\ DOMAIN fn_ret.mu_map1 = DOMAIN fn_ret.mu_map
            /\ DOMAIN fn_ret.mu_map2 = DOMAIN fn_ret.mu_map
            /\ \A other \in DOMAIN fn_ret.mu_map \ {layer} :
                  /\ fn_ret.mu_map1[other] = fn_ret.mu_map[other]
                  /\ fn_ret.mu_map2[other] = fn_ret.mu_map[other]
            /\ fn_ret.mu_map1[layer] =
                  LayerMuA(fn_args.mu_a_eqn, side, sat + d_sat, hb + d_hb, op.wave_int)
            /\ fn_ret.mu_map2[layer] =
                  LayerMuA(fn_args.mu_a_eqn, side, sat - d_sat, hb - d_hb, op.wave_int)

\* C17 witness: a call on the axis MS returned a plus map and a minus map that differ
\* from the base map at layer 1, and from each other.
C17_Witness ==
    /\ MuMapsReturned
    /\ fn_args.dx = "MS"
    /\ fn_ret.mu_map1[1] # fn_ret.mu_map[1]
    /\ fn_ret.mu_map2[1] # fn_ret.mu_map[1]
    /\ fn_ret.mu_map1[1] # fn_ret.mu_map2[1]
    /\ fn_ret.mu_map1[4] = fn_ret.mu_map[4]

\* derivative_mu_map_gen was called
MuMapsCalled == fn_args.fn = "derivative_mu_map_gen" /\ fn_ret # NotCalled

\* C18: derivative_mu_map_gen, called with an axis that names neither a concentration
\* (C) nor a saturation (S), raises NotImplementedError and returns no maps, in both
\* strategies.
C18_UnsupportedAxisRaises ==
    (MuMapsCalled /\ fn_args.dx \in {"M", "F"}) =>
        /\ fn_ret.raises = "NotImplementedError"
        /\ fn_ret.mu_map = <<>>
        /\ fn_ret.mu_map1 = <<>>
        /\ fn_ret.mu_map2 = <<>>

\* C18 witness: a PartialBlood call with the axis "M" raised.
C18_Witness ==
    /\ MuMapsCalled
    /\ fn_args.mu_a_eqn.cls = "PartialBloodJacobianMuAEqn"
    /\ fn_args.dx = "M"
    /\ fn_ret.raises = "NotImplementedError"

\* calculate_jacobian_numerical was called with a detector index that its list of SDD
\* values has
NumericalCalled ==
    /\ fn_args.fn = "calculate_jacobian_numerical"
    /\ fn_ret # NotCalled
    /\ fn_args.sdd_index + 1 \in
          DOMAIN (IF fn_args.sdd_list.none
                  THEN Unique([i \in DOMAIN fn_args.photon_data |-> fn_args.photon_data[i][0]])
                  ELSE fn_args.sdd_list.list)

\* C19: calculate_jacobian_numerical returns the value of the chosen calculator
\* (regular, norm_der, log) built on the rows whose SDD is the value at sdd_index of
\* sdd_list (of the table's unique SDD values when sdd_list is None), with the
\* operating point, the base map, the axis dx and the step delta it was given.
C19_ConvenienceCallReturnsTheCalculatorsValue ==
    NumericalCalled =>
        LET sdds == IF fn_args.sdd_list.none
                    THEN Unique([i \in DOMAIN fn_args.photon_data |->
                                     fn_args.photon_data[i][0]])
                    ELSE fn_args.sdd_list.list
            sdd == sdds[fn_args.sdd_index + 1]
            rows == SelectSeq(fn_args.photon_data, LAMBDA row : row[0] = sdd)
            calculator ==
                NumericalInit(DerivativeMapping(fn_args.derivative_format), rows,
                              fn_args.operating_point, fn_args.base_mu_map, fn_args.dx,
                              FullBloodEqn, fn_args.delta)
        IN  /\ fn_ret.raises = ""
            /\ SameFloat(fn_ret.value, NumCalculateJacobian(calculator))

\* generate_intensity_column was called
IntensityColumnCalled == fn_args.fn = "generate_intensity_column" /\ fn_ret # NotCalled

\* the per-layer path columns of the table given: all its columns but "SDD"
PathColumnsGiven == DOMAIN fn_args.photon_data[1] \ {0}

\* C20: generate_intensity_column raises its length-mismatch AssertionError when the
\* number of per-layer path columns of the table differs from the number of entries of
\* the map, and otherwise returns one intensity for each row of the table.
C20_IntensityColumnChecksTheShape ==
    IntensityColumnCalled =>
        IF Cardinality(PathColumnsGiven) # Cardinality(DOMAIN fn_args.mu_map)
        THEN fn_ret = Raised("AssertionError: mu_map & partial path data length mismatch")
        ELSE /\ fn_ret.raises = ""
             /\ DOMAIN fn_ret.value.intensity = DOMAIN fn_args.photon_data

\* C20 witness: a table with an SDD column and one path column, and a map of two
\* entries: as many columns as entries, but one path column only, and the call raised.
C20_Witness ==
    /\ IntensityColumnCalled
    /\ DOMAIN fn_args.photon_data[1] = {0, 1}
    /\ DOMAIN fn_args.mu_map = {1, 2}
    /\ fn_ret.raises # ""

\* C30: when generate_intensity_column returns (the map has as many entries as the
\* table has path columns), the coefficient under layer key n of the map has been
\* applied to the path lengths of the column 'L{n} ppath': the intensity of each photon
\* is exp(-e), e the sum over the keys n of mu_map[n] times the photon's 'L{n} ppath',
\* whatever the number of layers.
C30_CoefficientOfLayerNIsAppliedToColumnLn ==
    (IntensityColumnCalled /\ fn_ret.raises = "") =>
        \A i \in DOMAIN fn_args.photon_data :
            fn_ret.value.intensity[i] =
                SumF([n \in DOMAIN fn_args.mu_map |->
                         fn_args.mu_map[n] * fn_args.photon_data[i][n]],
                     DOMAIN fn_args.mu_map)

(***************************************************************************)
(* The claims about ToF (under SpecToF).                                   *)
(***************************************************************************)
\* the instances the caller holds that a call returned, each with its arguments
Made == {<<tof1, tof1_args>>, <<tof2, tof2_args>>}
MadeBy(how) ==
    {m \in Made : m[1].raises = "" /\ m[2].how = how /\ (m[1] = tof1 => tof_dropped = {})}

\* the bins [lower_bin_index, upper_bin_index] of an instance
Range(t) == t.lower_bin_index..t.upper_bin_index

\* C3: a ToF the raw constructor returned has an entry in data for every bin from
\* lower_bin_index to upper_bin_index, and when the caller has dropped a bin strictly
\* between the two from the data of such a ToF and called _fill_data_gaps(), the bin is
\* in data again.
C3_RawDataHasEveryBinOfItsRange ==
    /\ \A m \in MadeBy("raw") : Range(m[1]) \subseteq DOMAIN m[1].data
    /\ (/\ tof_pc = "filled"
        /\ tof1_args.how = "raw"
        /\ \A b \in tof_dropped : tof1.lower_bin_index < b /\ b < tof1.upper_bin_index)
           => tof_dropped \subseteq DOMAIN tof1.data

\* C3 witness: the raw constructor filled bin 1 between the bins 0 and 2 of the
\* photons, the caller dropped bin 1, and _fill_data_gaps() has run.
C3_Witness ==
    /\ tof_pc = "filled"
    /\ tof1_args.how = "raw"
    /\ tof_dropped = {1}
    /\ DOMAIN tof1.data = 0..2
    /\ tof1.data[1] = Pos

\* C4: check_operation_compatibility(a, b) returns true exactly when the two time
\* resolutions are equal and neither range lies wholly beyond the other; a ToF is
\* compatible with itself, and two ToFs with disjoint ranges are not compatible.
C4_CompatibleIffSameResolutionAndOverlap ==
    tof_check.called =>
        LET overlap == ~(tof1.lower_bin_index > tof2.upper_bin_index
                         \/ tof1.upper_bin_index < tof2.lower_bin_index)
            same == tof1.time_resolution = tof2.time_resolution
        IN  /\ tof_check.other = (same /\ overlap)
            /\ tof_check.reverse = (same /\ overlap)
            /\ tof_check.self
            /\ Range(tof1) \cap Range(tof2) = {} => ~tof_check.other

\* C4 witness: two ToFs of one time resolution whose ranges are disjoint were checked.
C4_Witness ==
    /\ tof_check.called
    /\ ~tof_check.other
    /\ tof1.time_resolution = tof2.time_resolution
    /\ tof1.upper_bin_index < tof2.lower_bin_index

\* C5: when an operator was applied to two ToFs that check_operation_compatibility
\* rejects, it raised the error of incompatible ToFs and gave no ToF.
C5_IncompatibleOperandsRaise ==
    (tof_pc = "operated" /\ ~CheckOperationCompatibility(tof1, tof2))
        => /\ tof3.raises = IncompatibleError
           /\ tof3.data = <<>>

\* C5 witness: a division of two ToFs of one time resolution and disjoint ranges raised.
C5_Witness ==
    /\ tof_pc = "operated"
    /\ tof_operation = "truediv"
    /\ tof1.time_resolution = tof2.time_resolution
    /\ Range(tof1) \cap Range(tof2) = {}
    /\ tof3.raises = IncompatibleError

\* data has every bin of the range
Contiguous(t) == DOMAIN t.data = Range(t)

\* C6: the ToF an operator returned has exactly the bins that are in the data of both
\* operands, and when the data of both operands has every bin of its range, these are
\* the bins from the larger lower_bin_index to the smaller upper_bin_index.
C6_ResultBinsAreTheCommonBins ==
    (tof_pc = "operated" /\ tof3.raises = "")
        => /\ DOMAIN tof3.data = DOMAIN tof1.data \cap DOMAIN tof2.data
           /\ (Contiguous(tof1) /\ Contiguous(tof2))
                 => DOMAIN tof3.data =
                        MaxOf({tof1.lower_bin_index, tof2.lower_bin_index})
                            ..MinOf({tof1.upper_bin_index, tof2.upper_bin_index})

\* C6 witness: an operator returned for two raw ToFs, one of them gap filled, whose
\* ranges differ.
C6_Witness ==
    /\ tof_pc = "operated"
    /\ tof3.raises = ""
    /\ tof1_args.how = "raw"
    /\ tof2_args.how = "raw"
    /\ tof1.interpolation_needed
    /\ DOMAIN tof1.data = 0..2
    /\ DOMAIN tof2.data = 1..2
    /\ DOMAIN tof3.data = 1..2

\* the ToF an operator returned holds, at every bin the operands share, the operation
\* on the operands' values there
ResultIsElementwise ==
    \A b \in DOMAIN tof1.data \cap DOMAIN tof2.data :
        /\ b \in DOMAIN tof3.data
        /\ tof3.data[b] = ApplyOperation(tof_operation, tof1.data[b], tof2.data[b])

\* tof1 and tof2 are from_data(s, r) of one Series s and one r, and were divided
DividedBySelf ==
    /\ tof_operation = "truediv"
    /\ tof1_args.how = "from_data"
    /\ tof2_args = tof1_args

\* C7: the ToF an operator returned holds at every common bin the operation on the two
\* operands' values; in particular from_data(s, r) / from_data(s, r), for a Series s
\* without a zero, holds 1.0 at every bin of s, and a product holds the products.
C7_ResultIsElementwiseAndRatioOfNonzeroIsOne ==
    (tof_pc = "operated" /\ tof3.raises = "")
        => /\ ResultIsElementwise
           /\ (DividedBySelf /\ \A b \in DOMAIN tof1_args.data : tof1_args.data[b].n # 0)
                 => \A b \in DOMAIN tof1_args.data :
                        b \in DOMAIN tof3.data /\ tof3.data[b] = Rat(1, 1)

\* C7 as it was stated: from_data(s, r) / from_data(s, r) holds 1.0 at every bin of s,
\* whatever s holds.
C7_RatioOfAnySeriesIsOne ==
    (tof_pc = "operated" /\ tof3.raises = "")
        => /\ ResultIsElementwise
           /\ DividedBySelf
                 => \A b \in DOMAIN tof1_args.data :
                        b \in DOMAIN tof3.data /\ tof3.data[b] = Rat(1, 1)

\* C7 witness: from_data of the Series 1, 2 over the bins 0, 2 was divided by itself.
C7_Witness ==
    /\ tof_pc = "operated"
    /\ DividedBySelf
    /\ tof1_args.data = (0 :> Rat(1, 1)) @@ (2 :> Rat(2, 1))
    /\ tof3.raises = ""
    /\ tof3.data = (0 :> Rat(1, 1)) @@ (2 :> Rat(1, 1))

\* C8: a ToF that from_data(series, r) returned has the series as its data, bin for bin
\* and value for value, gaps of the index included, and r as its time_resolution.
C8_FromDataKeepsTheSeries ==
    \A m \in MadeBy("from_data") :
        /\ m[1].data = m[2].data
        /\ m[1].time_resolution = m[2].time_resolution

\* C8 witness: from_data returned for a Series over the bins 0 and 2 only.
C8_Witness ==
    /\ tof_pc = "one"
    /\ tof1_args.how = "from_data"
    /\ DOMAIN tof1_args.data = {0, 2}
    /\ tof1.raises = ""
    /\ DOMAIN tof1.data = {0, 2}

\* the bins of a raw table whose summed intensity is above the bound
SurvivingBins(args) ==
    BinsAboveBound(GroupSum(TempData(args.photon_data, args.time_resolution, ToFMuMap)),
                   LowerIntensityBound)

\* C9: in a ToF the raw constructor returned, interpolation_needed is true exactly when
\* fewer bins survived the bound than upper_bin_index - lower_bin_index + 1, and it is
\* false when the surviving bins are the whole range.
C9_InterpolationNeededIffFewerBinsThanRange ==
    \A m \in MadeBy("raw") :
        LET survived == SurvivingBins(m[2])
        IN  /\ m[1].interpolation_needed
                  <=> Cardinality(survived) < m[1].upper_bin_index - m[1].lower_bin_index + 1
            /\ survived = Range(m[1]) => ~m[1].interpolation_needed

\* C9 witness: a raw ToF of two photons in the bins 0 and 2, which needed interpolation.
C9_Witness ==
    /\ tof_pc = "one"
    /\ tof1_args.how = "raw"
    /\ tof1.raises = ""
    /\ SurvivingBins(tof1_args) = {0, 2}
    /\ tof1.interpolation_needed

\* the attributes of a distribution that an operator reads
SameDistribution(a, b) ==
    /\ a.data = b.data
    /\ a.photon_count_per_bin = b.photon_count_per_bin
    /\ a.lower_bin_index = b.lower_bin_index
    /\ a.upper_bin_index = b.upper_bin_index
    /\ a.time_resolution = b.time_resolution

\* C21: a step in which an operator is applied to two ToFs, or to a ToF and a number,
\* leaves the data, photon_count_per_bin, lower_bin_index, upper_bin_index and
\* time_resolution of each operand as they were and the operands bound to the objects
\* they were bound to, and the ToF an operator of two ToFs returns is an object that
\* is neither of the operands.
C21_OperatorsLeaveTheOperandsUnchanged ==
    [][/\ (tof_pc = "two" /\ tof_pc' = "operated")
            => /\ SameDistribution(tof1', tof1)
               /\ SameDistribution(tof2', tof2)
               /\ tof_ids'.tof1 = tof_ids.tof1
               /\ tof_ids'.tof2 = tof_ids.tof2
               /\ tof3'.raises = "" => tof_ids'.tof3 \notin {0, tof_ids.tof1, tof_ids.tof2}
       /\ tof_pc' = "scalar_operated"
            => /\ SameDistribution(tof1', tof1)
               /\ tof_ids' = tof_ids]_vars

\* C21 witness: an operator returned for two ToFs, the left one the result of an
\* earlier operator: the three names are bound to three objects.
C21_Witness ==
    /\ tof_pc = "operated"
    /\ tof3.raises = ""
    /\ tof_chain = 1
    /\ tof_ids.tof1 # tof_ids.tof2
    /\ tof_ids.tof3 \notin {0, tof_ids.tof1, tof_ids.tof2}

\* what the raw constructor was given, photon by photon: the bin of the photon's time of
\* flight, floor(tof / time_resolution), and its intensity exp(-mu * path)
PhotonBin(args, i) == args.photon_data[i][1] \div (SpeedOfLight * args.time_resolution)
PhotonIntensity(args, i) == Rat(1, 2 ^ (ToFMuMap[1] * args.photon_data[i][1]))
PhotonsOfBin(args, b) == {i \in DOMAIN args.photon_data : PhotonBin(args, i) = b}
IntensityOfBin(args, b) ==
    FloatSum([i \in DOMAIN args.photon_data |-> PhotonIntensity(args, i)], PhotonsOfBin(args, b))

\* the bins that hold a photon and whose summed intensity is above the cutoff
BinsKept(args) ==
    {b \in {PhotonBin(args, i) : i \in DOMAIN args.photon_data} :
        GreaterThan(IntensityOfBin(args, b), LowerIntensityBound)}

\* a ToF the raw constructor returned holds, at every bin above the cutoff, the sum of
\* the intensities and the number of the photons of the bin, and holds no other bin
\* but those the gap filling interpolated
RawAggregation(t, args) ==
    /\ BinsKept(args) \subseteq DOMAIN t.data
    /\ DOMAIN t.photon_count_per_bin = DOMAIN t.data
    /\ \A b \in DOMAIN t.data :
          IF b \in BinsKept(args)
          THEN /\ t.data[b] = IntensityOfBin(args, b)
               /\ t.photon_count_per_bin[b] = Rat(Cardinality(PhotonsOfBin(args, b)), 1)
          ELSE /\ t.interpolation_needed
               /\ MinOf(BinsKept(args)) < b /\ b < MaxOf(BinsKept(args))
               /\ t.data[b] = Pos
               /\ t.photon_count_per_bin[b] = Pos

ReturnedToFs ==
    {m[1] : m \in {n \in Made : n[1].raises = "" /\ (n[1] = tof1 => tof_dropped = {})}}
        \cup (IF tof_pc = "operated" /\ tof3.raises = "" THEN {tof3} ELSE {})

\* C23: in every ToF the raw constructor, from_data or an operator (of ToFs that may
\* themselves be results of operators) returned, lower_bin_index is the smallest and
\* upper_bin_index the largest bin of data.
C23_BoundsAreMinAndMaxBinOfData ==
    \A t \in ReturnedToFs :
        /\ DOMAIN t.data # {}
        /\ t.lower_bin_index = MinOf(DOMAIN t.data)
        /\ t.upper_bin_index = MaxOf(DOMAIN t.data)

\* C23 witness: an operator returned a ToF over the bins 1 and 2 for a left operand that
\* an earlier operator returned and a right operand over more bins.
C23_Witness ==
    /\ tof_pc = "operated"
    /\ tof_chain = 1
    /\ tof3.raises = ""
    /\ DOMAIN tof2.data = 0..2
    /\ DOMAIN tof3.data = {1, 2}
    /\ tof3.lower_bin_index = 1
    /\ tof3.upper_bin_index = 2

\* C26: in every ToF the raw constructor, from_data or an operator returned,
\* photon_count_per_bin has exactly the bins of data.
C26_CountHasTheBinsOfData ==
    \A t \in ReturnedToFs : DOMAIN t.photon_count_per_bin = DOMAIN t.data

\* C27: when an operator was applied to two ToFs that check_operation_compatibility
\* accepts, it raised nothing and returned a ToF, an object of its own, with at least
\* one bin.
C27_CompatibleOperandsGiveADistribution ==
    (tof_pc = "operated" /\ CheckOperationCompatibility(tof1, tof2))
        => /\ tof3.raises = ""
           /\ DOMAIN tof3.data # {}
           /\ tof_ids.tof3 \notin {0, tof_ids.tof1, tof_ids.tof2}

(***************************************************************************)
(* The specifications: one per component, the other components at rest.    *)
(***************************************************************************)
InitJac == JacInit /\ OptIdle /\ ToFIdle /\ FnIdle
NextJac == JacNext
SpecJac == InitJac /\ [][NextJac]_vars

InitOpt == OptInit /\ JacIdle /\ ToFIdle /\ FnIdle
NextOpt == OptNext
SpecOpt == InitOpt /\ [][NextOpt]_vars

\* a call of two_pointer_discrete_optimize runs on: the loop body and the return are
\* straight-line code, and target_func is taken to return
SpecOptFair ==
    InitOpt /\ [][NextOpt]_vars /\ WF_vars(DiscreteStep) /\ WF_vars(DiscreteReturn)

InitOptTest == OptTestInit /\ JacIdle /\ ToFIdle /\ FnIdle
NextOptTest == DiscreteStart \/ DiscreteStep \/ DiscreteReturn
SpecOptTest == InitOptTest /\ [][NextOptTest]_vars

InitFn == FnInit /\ JacIdle /\ OptIdle /\ ToFIdle
NextFn == FnNext
SpecFn == InitFn /\ [][NextFn]_vars

InitToF == ToFStart /\ JacIdle /\ OptIdle /\ FnIdle
NextToF == ToFNext
SpecToF == InitToF /\ [][NextToF]_vars

=============================================================================
